---- MODULE Spec2Model ----
(***************************************************************************)
(* Model of the flashpipe orchestrator (internal/cmd orchestrator command, *)
(* internal/deploy config loader) as a state machine.                      *)
(*                                                                         *)
(* Strings are TLA+ strings; concatenation is \o, so that prefix + id is   *)
(* computed as the code computes it and two different (prefix, id) pairs   *)
(* can give the same fully-qualified ID.                                   *)
(***************************************************************************)
EXTENDS Integers, Sequences, FiniteSets, TLC

(***************************************************************************)
(* Bounds of the model.                                                    *)
(***************************************************************************)
\* MergeConfigs checked alone: number of manifests and packages per manifest
MaxMergeConfigs == 2
MaxMergePkgs == 2
\* a whole run: manifests, artifacts per package
MaxConfigs == 2
MaxArts == 2
\* the largest parallelDeployments value tried
MaxParallel == 2
\* external failures (I/O, tenant errors) injected in one whole run
MaxFaults == 1
\* deployAllArtifactsParallel checked alone: number of tasks
MaxTasks == 3
\* pd-deploy: string parameters in the String.properties of partner A
MaxParams == 2
\* String.properties: characters of a parameter value
MaxLen == 2
\* escape and unescape checked alone: characters of the value
MaxValueLen == 3
\* operations handed to ExecuteInBatches, and the largest batch size tried
MaxOps == 3
MaxBatchSize == 2
\* goroutines calling NewBatchRequest at the same time
MaxCallers == 2
\* lines of a MANIFEST.MF or a parameters.prop
MaxLines == 3

(***************************************************************************)
(* Operation modes (OperationMode constants).                              *)
(***************************************************************************)
ModeUpdateAndDeploy == "update-and-deploy"
ModeUpdateOnly == "update-only"
ModeDeployOnly == "deploy-only"
Modes == {ModeUpdateAndDeploy, ModeUpdateOnly, ModeDeployOnly}

(***************************************************************************)
(* String helpers.                                                         *)
(***************************************************************************)
\* strings.Contains
Contains(s, sub) ==
    \E k \in 1..(Len(s) - Len(sub) + 1) : SubSeq(s, k, k + Len(sub) - 1) = sub

\* the characters regexp "^[a-zA-Z0-9_]+$" accepts
PrefixChars ==
    {"a","b","c","d","e","f","g","h","i","j","k","l","m","n","o","p","q","r",
     "s","t","u","v","w","x","y","z","A","B","C","D","E","F","G","H","I","J",
     "K","L","M","N","O","P","Q","R","S","T","U","V","W","X","Y","Z","0","1",
     "2","3","4","5","6","7","8","9","_"}

IsSpace(c) == c \in {" ", "\t", "\n", "\r"}

\* strings.TrimSpace
RECURSIVE TrimSpace(_)
TrimSpace(s) ==
    IF Len(s) = 0 THEN s
    ELSE IF IsSpace(SubSeq(s, 1, 1)) THEN TrimSpace(SubSeq(s, 2, Len(s)))
    ELSE IF IsSpace(SubSeq(s, Len(s), Len(s))) THEN TrimSpace(SubSeq(s, 1, Len(s) - 1))
    ELSE s

UpperLetters == "ABCDEFGHIJKLMNOPQRSTUVWXYZ"

LowerLetters == "abcdefghijklmnopqrstuvwxyz"

\* strings.ToLower
ToLower(s) ==
    LET lower(c) ==
            IF \E k \in 1..Len(UpperLetters) : SubSeq(UpperLetters, k, k) = c
            THEN LET k == CHOOSE n \in 1..Len(UpperLetters) : SubSeq(UpperLetters, n, n) = c
                 IN SubSeq(LowerLetters, k, k)
            ELSE c
        RECURSIVE lowered(_)
        lowered(k) == IF k > Len(s) THEN "" ELSE lower(SubSeq(s, k, k)) \o lowered(k + 1)
    IN lowered(1)

\* strings.HasSuffix
HasSuffix(s, suffix) ==
    Len(s) >= Len(suffix) /\ SubSeq(s, Len(s) - Len(suffix) + 1, Len(s)) = suffix

\* strings.Index and strings.LastIndex of a character, counted from 1;
\* 0 if the string does not hold it
Index(s, c) ==
    IF \E k \in 1..Len(s) : SubSeq(s, k, k) = c
    THEN CHOOSE k \in 1..Len(s) :
            SubSeq(s, k, k) = c /\ \A n \in 1..(k - 1) : SubSeq(s, n, n) # c
    ELSE 0

LastIndex(s, c) ==
    IF \E k \in 1..Len(s) : SubSeq(s, k, k) = c
    THEN CHOOSE k \in 1..Len(s) :
            SubSeq(s, k, k) = c /\ \A n \in (k + 1)..Len(s) : SubSeq(s, n, n) # c
    ELSE 0

\* ValidateDeploymentPrefix: TRUE iff it returns nil
ValidateDeploymentPrefix(prefix) ==
    \/ prefix = ""
    \/ \A k \in 1..Len(prefix) : SubSeq(prefix, k, k) \in PrefixChars

\* shouldInclude(id, filter): an empty filter includes everything
shouldInclude(id, filter) ==
    \/ Len(filter) = 0
    \/ \E k \in 1..Len(filter) : filter[k] = id

(***************************************************************************)
(* models.Artifact, models.Package, models.DeployConfig, DeployConfigFile  *)
(***************************************************************************)
Artifact(id, name, type, sync, deploy) ==
    [Id |-> id, DisplayName |-> name, Type |-> type, Sync |-> sync, Deploy |-> deploy]

Package(id, name, sync, deploy, artifacts) ==
    [ID |-> id, DisplayName |-> name, Sync |-> sync, Deploy |-> deploy,
     Artifacts |-> artifacts]

DeployConfig(prefix, packages) ==
    [DeploymentPrefix |-> prefix, Packages |-> packages]

DeployConfigFile(config, fileName) ==
    [Config |-> config, FileName |-> fileName]

\* the base file name of the i-th loaded manifest
FileNameOf(i) == "cfg" \o ToString(i) \o ".yml"

(***************************************************************************)
(* MergeConfigs (internal/deploy/config_loader.go).                        *)
(***************************************************************************)
\* the error of line 359
DuplicateError(fullyQualifiedID, fileName, existingSource) ==
    "duplicate package ID '" \o fullyQualifiedID \o "' found in " \o fileName
        \o " (already exists from " \o existingSource \o ")"

NoConfigsError == "no configs to merge"

\* line 342-345: configPrefix + "" + pkg.ID when the prefix is not empty
FullyQualifiedID(configPrefix, pkg) ==
    IF configPrefix # "" THEN configPrefix \o "" \o pkg.ID ELSE pkg.ID

\* a variant without the fallback to the package ID
MergedDisplayNameNoFallback(configPrefix, pkg) == configPrefix \o " - " \o pkg.DisplayName

\* line 350-354
MergedDisplayName(configPrefix, pkg) ==
    IF pkg.DisplayName # ""
    THEN configPrefix \o " - " \o pkg.DisplayName
    ELSE configPrefix \o " - " \o pkg.ID

\* line 364-368: the loop writes through mergedPkg.Artifacts, a slice that
\* shares its backing array with the input package
PrefixArtifacts(configPrefix, artifacts) ==
    IF configPrefix # ""
    THEN [k \in 1..Len(artifacts) |->
             [artifacts[k] EXCEPT !.Id = configPrefix \o "_" \o artifacts[k].Id]]
    ELSE artifacts

\* the package appended to merged.Packages
MergedPackage(configPrefix, pkg) ==
    IF configPrefix # ""
    THEN [pkg EXCEPT !.ID = FullyQualifiedID(configPrefix, pkg),
                     !.DisplayName = MergedDisplayName(configPrefix, pkg),
                     !.Artifacts = PrefixArtifacts(configPrefix, pkg.Artifacts)]
    ELSE pkg

\* a variant that never finds a duplicate
NeverDuplicate(packageMap, fullyQualifiedID) == FALSE

\* line 358: the duplicate test on packageMap
IsDuplicate(packageMap, fullyQualifiedID) == fullyQualifiedID \in DOMAIN packageMap

\* The two nested loops of MergeConfigs from package j of manifest i on.
\* st.configs is the input as the loops leave it (artifact IDs are rewritten
\* in place), st.merged the packages appended so far, st.packageMap the map
\* fullyQualifiedID -> file name, st.err the error ("" while there is none).
RECURSIVE MergeLoop(_, _, _)
MergeLoop(st, i, j) ==
    IF i > Len(st.configs) THEN st
    ELSE IF j > Len(st.configs[i].Config.Packages) THEN MergeLoop(st, i + 1, 1)
    ELSE LET configFile == st.configs[i]
             configPrefix == configFile.Config.DeploymentPrefix
             pkg == configFile.Config.Packages[j]
             fullyQualifiedID == FullyQualifiedID(configPrefix, pkg)
         IN IF IsDuplicate(st.packageMap, fullyQualifiedID)
            THEN [st EXCEPT !.err = DuplicateError(fullyQualifiedID, configFile.FileName,
                                                   st.packageMap[fullyQualifiedID])]
            ELSE MergeLoop(
                   [st EXCEPT
                      !.configs[i].Config.Packages[j].Artifacts =
                          PrefixArtifacts(configPrefix, pkg.Artifacts),
                      !.packageMap = (fullyQualifiedID :> configFile.FileName) @@ st.packageMap,
                      !.merged = Append(st.merged, MergedPackage(configPrefix, pkg))],
                   i, j + 1)

\* MergeConfigs(configs): [ok, config, err, configs], configs being the input
\* manifests after the call
MergeConfigs(configs) ==
    IF Len(configs) = 0
    THEN [ok |-> FALSE, config |-> DeployConfig("", <<>>), err |-> NoConfigsError,
          configs |-> configs]
    ELSE LET st == MergeLoop([configs |-> configs, merged |-> <<>>,
                              packageMap |-> <<>>, err |-> ""], 1, 1)
         IN IF st.err # ""
            THEN [ok |-> FALSE, config |-> DeployConfig("", <<>>), err |-> st.err,
                  configs |-> st.configs]
            ELSE [ok |-> TRUE, config |-> DeployConfig("", st.merged), err |-> "",
                  configs |-> st.configs]

(***************************************************************************)
(* State of one run of runOrchestrator.                                    *)
(***************************************************************************)
VARIABLES
    opts,            \* the arguments of runOrchestrator
    pd,              \* the Partner Directory: local files, tenant, run state
    configFiles,     \* the manifests LoadConfigs returns ([]*DeployConfigFile)
    merged,          \* mergedConfig, err of the call of MergeConfigs
    pc,              \* position of the main goroutine
    result,          \* the value runOrchestrator returned ("" while running)
    tmp,             \* the temporary work directory
    stats,           \* ProcessingStats
    work,            \* the configs handed to processPackages, with applyPrefix
    ci, pi, ai,      \* manifest, package and artifact the loops are at
    deploymentTasks, \* []DeploymentTask collected for phase 2
    todo,            \* keys of tasksByPackage not yet ranged over
    packageTasks,    \* the group being deployed: indices into deploymentTasks
    wpc,             \* position of each worker goroutine of the group
    werr,            \* what deployArtifacts returned to each worker
    semaphore,       \* number of elements in the semaphore channel
    resultChan,      \* the buffered result channel of the group
    faults,          \* external failures injected so far
    obs              \* what the external collaborators saw (not program state)

vars == <<opts, pd, merged, configFiles, pc, result, tmp, stats, work, ci, pi, ai,
          deploymentTasks, todo, packageTasks, wpc, werr, semaphore,
          resultChan, faults, obs>>

\* stats := ProcessingStats{...} (line 769): counters 0, maps empty
NewStats ==
    [PackagesUpdated |-> 0, PackagesDeployed |-> 0, PackagesFailed |-> 0,
     PackagesFiltered |-> 0, ArtifactsTotal |-> 0, ArtifactsDeployedSuccess |-> 0,
     ArtifactsDeployedFailed |-> 0, ArtifactsFiltered |-> 0, UpdateFailures |-> 0,
     DeployFailures |-> 0,
     SuccessfulPackageUpdates |-> {}, SuccessfulArtifactUpdates |-> {},
     SuccessfulArtifactDeploys |-> {}, FailedPackageUpdates |-> {},
     FailedArtifactUpdates |-> {}, FailedArtifactDeploys |-> {}]

\* What an observer of the run saw, by (manifest, package[, artifact]) of work
\* or by index of the deployment task:
\*   visited       packages the loop of processPackages reached
\*   syncer        packages the package syncer was called for
\*   syncerFailed  packages for which the package syncer returned an error
\*   pkgFailed     packages for which updatePackage returned an error
\*   updater       artifacts passed to SingleArtifactToTenant
\*   updateFailed  artifacts whose staging copy or SingleArtifactToTenant failed
\*   taskOrigin    the artifact each deployment task was built from
\*   deployer      how often deployArtifacts was called for each task
\*   deployFailed  tasks for which deployArtifacts returned an error
\*   finished      tasks whose worker goroutine has exited
\*   removed       how often the work directory was removed
\*   mergeInput    the manifests as they were when MergeConfigs was called on
\*                 its own
NewObs ==
    [visited |-> {}, syncer |-> {}, syncerFailed |-> {}, pkgFailed |-> {},
     updater |-> {}, updateFailed |-> {}, taskOrigin |-> <<>>, deployer |-> <<>>,
     deployFailed |-> {}, finished |-> {}, removed |-> 0, mergeInput |-> <<>>,
     collected |-> {}]

\* MergeConfigs was not called
NoMerge == [ok |-> FALSE, config |-> DeployConfig("", <<>>), err |-> "", configs |-> <<>>]

NoTmp == [created |-> 0, exists |-> FALSE, deferred |-> FALSE]

\* no Partner Directory command runs
NoPD == [local |-> <<>>, remote |-> <<>>]

DeploymentTask(artifactID, artifactType, packageID, displayName) ==
    [ArtifactID |-> artifactID, ArtifactType |-> artifactType,
     PackageID |-> packageID, DisplayName |-> displayName]

\* a failure of the environment may still be injected
CanFail == faults < opts.faultBudget

(***************************************************************************)
(* runOrchestrator up to the processing of the configs.                    *)
(***************************************************************************)
\* a variant that removes the work directory whatever --keep-temp says
AlwaysCleanup(keepTemp) == TRUE

\* defer os.RemoveAll(tempDir) is registered iff !keepTemp (line 811)
RegisterCleanup(keepTemp) == ~keepTemp

\* the deferred calls run on return
RunDeferred(t) == IF t.deferred THEN [t EXCEPT !.exists = FALSE] ELSE t

\* a return statement of runOrchestrator
Return(res) ==
    /\ result' = res
    /\ pc' = "returned"
    /\ tmp' = RunDeferred(tmp)
    /\ obs' = [obs EXCEPT !.removed = IF tmp.deferred THEN @ + 1 ELSE @]

\* line 804: the work directory is needed unless the mode is deploy-only
NeedsWorkDir(mode) == mode # ModeDeployOnly

\* lines 759-762
Validate ==
    /\ pc = "start"
    /\ IF ValidateDeploymentPrefix(opts.deploymentPrefix)
       THEN pc' = "load" /\ UNCHANGED <<result, tmp, obs>>
       ELSE Return("invalid prefix")
    /\ UNCHANGED <<opts, pd, merged, configFiles, stats, work, ci, pi, ai, deploymentTasks, todo,
                   packageTasks, wpc, werr, semaphore, resultChan, faults>>

\* lines 790-798: DetectSource and LoadConfigs deliver configFiles or fail
LoadConfigs ==
    /\ pc = "load"
    /\ \E ok \in BOOLEAN :
          IF ok THEN pc' = "mktemp" /\ UNCHANGED <<result, tmp, obs>>
          ELSE Return("failed to load deployment config")
    /\ UNCHANGED <<opts, pd, merged, configFiles, stats, work, ci, pi, ai, deploymentTasks, todo,
                   packageTasks, wpc, werr, semaphore, resultChan, faults>>

\* lines 802-816: os.MkdirTemp, and the deferred removal
CreateWorkDir ==
    /\ pc = "mktemp"
    /\ IF NeedsWorkDir(opts.mode)
       THEN \E ok \in BOOLEAN :
               IF ok
               THEN /\ tmp' = [created |-> tmp.created + 1, exists |-> TRUE,
                               deferred |-> RegisterCleanup(opts.keepTemp)]
                    /\ pc' = "creds"
                    /\ UNCHANGED <<result, obs>>
               ELSE Return("failed to create temp directory")
       ELSE pc' = "creds" /\ UNCHANGED <<result, tmp, obs>>
    /\ UNCHANGED <<opts, pd, merged, configFiles, stats, work, ci, pi, ai, deploymentTasks, todo,
                   packageTasks, wpc, werr, semaphore, resultChan, faults>>

\* lines 828-838: getServiceDetailsFromViperOrCmd returns nil, details without
\* host, or usable details
GetServiceDetails ==
    /\ pc = "creds"
    /\ \E sd \in {"nil", "nohost", "ok"} :
          CASE sd = "nil" -> Return("missing CPI credentials")
            [] sd = "nohost" -> Return("CPI host is required")
            [] OTHER -> pc' = "configs" /\ UNCHANGED <<result, tmp, obs>>
    /\ UNCHANGED <<opts, pd, merged, configFiles, stats, work, ci, pi, ai, deploymentTasks, todo,
                   packageTasks, wpc, werr, semaphore, resultChan, faults>>

\* line 853: the merge branch is taken
UsesMerge(mergeConfigs, files) == mergeConfigs /\ Len(files) > 1

\* lines 877-880: a command-line prefix replaces the manifest's own
OverridePrefix(deploymentPrefix, file) ==
    IF deploymentPrefix # ""
    THEN [file EXCEPT !.Config.DeploymentPrefix = deploymentPrefix]
    ELSE file

\* lines 852-892: either MergeConfigs and one processPackages(merged, false),
\* or one processPackages(config, true) per manifest
PrepareConfigs ==
    /\ pc = "configs"
    /\ IF UsesMerge(opts.mergeConfigs, configFiles)
       THEN LET r == MergeConfigs(configFiles)
            IN /\ configFiles' = r.configs
               /\ merged' = r
               /\ IF r.ok
                  THEN /\ work' = <<[config |-> r.config, applyPrefix |-> FALSE]>>
                       /\ pc' = "pkg"
                       /\ UNCHANGED <<result, tmp, obs>>
                  ELSE /\ Return("failed to merge configs: " \o r.err)
                       /\ UNCHANGED work
       ELSE /\ configFiles' = [i \in 1..Len(configFiles) |->
                                  OverridePrefix(opts.deploymentPrefix, configFiles[i])]
            /\ UNCHANGED merged
            /\ work' = [i \in 1..Len(configFiles) |->
                          [config |-> OverridePrefix(opts.deploymentPrefix, configFiles[i]).Config,
                           applyPrefix |-> TRUE]]
            /\ pc' = "pkg"
            /\ UNCHANGED <<result, tmp, obs>>
    /\ UNCHANGED <<opts, pd, stats, ci, pi, ai, deploymentTasks, todo,
                   packageTasks, wpc, werr, semaphore, resultChan, faults>>

(***************************************************************************)
(* Phase 1: processPackages, updatePackage, updateArtifacts,               *)
(* collectDeploymentTasks.  The calls to the package syncer and to         *)
(* SingleArtifactToTenant take two steps, the call and its return.         *)
(***************************************************************************)
CurConfig == work[ci].config
CurPackage == CurConfig.Packages[pi]
CurArtifact == CurPackage.Artifacts[ai]

phase1Frame == <<opts, pd, merged, configFiles, result, tmp, work, ci, todo, packageTasks, wpc,
                 werr, semaphore, resultChan>>

\* line 945: a package with sync=false and deploy=false is skipped
SkipPackage(pkg) == ~pkg.Sync /\ ~pkg.Deploy

\* lines 960-970
FinalPackageID(config, applyPrefix, pkg) ==
    IF applyPrefix /\ config.DeploymentPrefix # ""
    THEN config.DeploymentPrefix \o "" \o pkg.ID
    ELSE pkg.ID

\* lines 961-970
FinalPackageName(config, applyPrefix, pkg) ==
    LET name == IF pkg.DisplayName = "" THEN pkg.ID ELSE pkg.DisplayName
    IN IF applyPrefix /\ config.DeploymentPrefix # ""
       THEN config.DeploymentPrefix \o " - " \o name
       ELSE name

\* lines 1124-1132 and 1250-1253
FinalArtifactID(prefix, artifact) ==
    IF prefix # "" THEN prefix \o "_" \o artifact.Id ELSE artifact.Id

\* a variant of phase 1 that ignores the mode
UpdatesInAnyMode(mode) == TRUE

\* lines 976, 989: phase 1 touches the tenant unless the mode is deploy-only
UpdatesInMode(mode) == mode # ModeDeployOnly

\* line 998: tasks are collected unless the mode is update-only
DeploysInMode(mode) == mode # ModeUpdateOnly

\* lines 1056-1061: an error of the package syncer is logged as a warning and
\* updatePackage returns nil
SyncerErrorIsReturned(syncErr) == FALSE

\* lines 978-983: the error branch of processPackages
RecordPackageFailure(st, pkg) ==
    [st EXCEPT !.FailedPackageUpdates = @ \cup {pkg.ID}, !.PackagesFailed = @ + 1]

\* lines 984-985
RecordPackageUpdate(st, pkg) ==
    [st EXCEPT !.SuccessfulPackageUpdates = @ \cup {pkg.ID}, !.PackagesUpdated = @ + 1]

\* a variant that goes on with the artifacts whatever updatePackage returned
AfterUpdatePackageIgnoringError(failed, pkg) ==
    IF pkg.Sync /\ Len(pkg.Artifacts) > 0 THEN "art" ELSE "collect"

\* where processPackages goes once updatePackage returned: the artifacts when
\* it returned nil and pkg.Sync (line 989), else the task collection; after an
\* error the loop continues with the next package (line 982)
AfterUpdatePackage(failed, pkg) ==
    IF failed THEN "pkg"
    ELSE IF pkg.Sync /\ Len(pkg.Artifacts) > 0 THEN "art" ELSE "collect"

\* one iteration of the loop of processPackages up to the call of the syncer
PackageStep ==
    /\ pc = "pkg" /\ ci <= Len(work) /\ pi <= Len(CurConfig.Packages)
    /\ LET pkg == CurPackage
           seen == [obs EXCEPT !.visited = @ \cup {<<ci, pi>>}]
       IN
       \/ /\ ~shouldInclude(pkg.ID, opts.packageFilter)
          /\ stats' = [stats EXCEPT !.PackagesFiltered = @ + 1]
          /\ pi' = pi + 1 /\ obs' = seen
          /\ UNCHANGED <<pc, faults>>
       \/ /\ shouldInclude(pkg.ID, opts.packageFilter) /\ SkipPackage(pkg)
          /\ pi' = pi + 1 /\ obs' = seen
          /\ UNCHANGED <<pc, stats, faults>>
       \/ /\ shouldInclude(pkg.ID, opts.packageFilter) /\ ~SkipPackage(pkg)
          /\ \/ /\ CanFail                       \* package directory not found
                /\ faults' = faults + 1
                /\ pi' = pi + 1 /\ obs' = seen
                /\ UNCHANGED <<pc, stats>>
             \/ /\ ~UpdatesInMode(opts.mode)
                /\ pc' = "collect" /\ obs' = seen
                /\ UNCHANGED <<pi, stats, faults>>
             \/ /\ UpdatesInMode(opts.mode) /\ CanFail  \* package JSON not written
                /\ faults' = faults + 1
                /\ stats' = RecordPackageFailure(stats, pkg)
                /\ pc' = AfterUpdatePackage(TRUE, pkg)
                /\ pi' = IF AfterUpdatePackage(TRUE, pkg) = "pkg" THEN pi + 1 ELSE pi
                /\ obs' = [seen EXCEPT !.pkgFailed = @ \cup {<<ci, pi>>}]
             \/ /\ UpdatesInMode(opts.mode)
                /\ pc' = "pkg_sync"
                /\ obs' = [seen EXCEPT !.syncer = @ \cup {<<ci, pi>>}]
                /\ UNCHANGED <<pi, stats, faults>>
    /\ ai' = 1
    /\ UNCHANGED <<phase1Frame, deploymentTasks>>

\* packageSynchroniser.Exec returns, and updatePackage with it
PackageSyncReturn ==
    /\ pc = "pkg_sync"
    /\ \E syncErr \in BOOLEAN :
          /\ syncErr => CanFail
          /\ faults' = IF syncErr THEN faults + 1 ELSE faults
          /\ LET failed == SyncerErrorIsReturned(syncErr) IN
             /\ obs' = [obs EXCEPT
                          !.syncerFailed = IF syncErr THEN @ \cup {<<ci, pi>>} ELSE @,
                          !.pkgFailed = IF failed THEN @ \cup {<<ci, pi>>} ELSE @]
             /\ stats' = IF failed THEN RecordPackageFailure(stats, CurPackage)
                         ELSE RecordPackageUpdate(stats, CurPackage)
             /\ pc' = AfterUpdatePackage(failed, CurPackage)
             /\ pi' = IF AfterUpdatePackage(failed, CurPackage) = "pkg" THEN pi + 1 ELSE pi
    /\ ai' = 1
    /\ UNCHANGED <<phase1Frame, deploymentTasks>>

\* the position after artifact ai of the loop of updateArtifacts
AfterArtifact(pkg, k) == IF k + 1 > Len(pkg.Artifacts) THEN "collect" ELSE "art"

\* lines 1141-1145 and 1208-1212: what a failed update records; only a failed
\* SingleArtifactToTenant counts in UpdateFailures
RecordArtifactFailure(st, artifact, counted) ==
    [st EXCEPT !.FailedArtifactUpdates = @ \cup {artifact.Id},
               !.UpdateFailures = IF counted THEN @ + 1 ELSE @]

\* one iteration of the loop of updateArtifacts up to SingleArtifactToTenant
ArtifactStep ==
    /\ pc = "art" /\ ai <= Len(CurPackage.Artifacts)
    /\ LET artifact == CurArtifact
           next == AfterArtifact(CurPackage, ai)
       IN
       \/ /\ ~shouldInclude(artifact.Id, opts.artifactFilter)
          /\ stats' = [stats EXCEPT !.ArtifactsFiltered = @ + 1]
          /\ pc' = next /\ ai' = ai + 1
          /\ UNCHANGED <<faults, obs>>
       \/ /\ shouldInclude(artifact.Id, opts.artifactFilter) /\ ~artifact.Sync
          /\ pc' = next /\ ai' = ai + 1
          /\ UNCHANGED <<stats, faults, obs>>
       \/ /\ shouldInclude(artifact.Id, opts.artifactFilter) /\ artifact.Sync
          /\ \/ /\ CanFail                       \* artifact directory not found
                /\ faults' = faults + 1
                /\ stats' = [stats EXCEPT !.ArtifactsTotal = @ + 1]
                /\ pc' = next /\ ai' = ai + 1
                /\ UNCHANGED obs
             \/ /\ CanFail                       \* CopyDir failed
                /\ faults' = faults + 1
                /\ stats' = RecordArtifactFailure(
                               [stats EXCEPT !.ArtifactsTotal = @ + 1], artifact, FALSE)
                /\ obs' = [obs EXCEPT !.updateFailed = @ \cup {<<ci, pi, ai>>}]
                /\ pc' = next /\ ai' = ai + 1
             \/ /\ stats' = [stats EXCEPT !.ArtifactsTotal = @ + 1]
                /\ obs' = [obs EXCEPT !.updater = @ \cup {<<ci, pi, ai>>}]
                /\ pc' = "art_update"
                /\ UNCHANGED <<ai, faults>>
    /\ UNCHANGED <<phase1Frame, pi, deploymentTasks>>

\* SingleArtifactToTenant returns (lines 1205-1217)
ArtifactUpdateReturn ==
    /\ pc = "art_update"
    /\ \E failed \in BOOLEAN :
          /\ failed => CanFail
          /\ faults' = IF failed THEN faults + 1 ELSE faults
          /\ stats' = IF failed
                      THEN RecordArtifactFailure(stats, CurArtifact, TRUE)
                      ELSE [stats EXCEPT !.SuccessfulArtifactUpdates =
                               @ \cup {FinalArtifactID(CurConfig.DeploymentPrefix, CurArtifact)}]
          /\ obs' = [obs EXCEPT !.updateFailed = IF failed THEN @ \cup {<<ci, pi, ai>>} ELSE @]
    /\ pc' = AfterArtifact(CurPackage, ai) /\ ai' = ai + 1
    /\ UNCHANGED <<phase1Frame, pi, deploymentTasks>>

\* a variant without the test against FailedArtifactUpdates
CollectableDespiteFailure(artifact, artifactFilter, st) ==
    shouldInclude(artifact.Id, artifactFilter) /\ artifact.Deploy

\* lines 1234-1248: the artifact passes the three tests of the loop
Collectable(artifact, artifactFilter, st) ==
    /\ artifact.Id \notin st.FailedArtifactUpdates
    /\ shouldInclude(artifact.Id, artifactFilter)
    /\ artifact.Deploy

\* the indices, in order, of the artifacts collectDeploymentTasks emits
CollectedIndices(pkg, artifactFilter, st) ==
    SelectSeq([k \in 1..Len(pkg.Artifacts) |-> k],
              LAMBDA k : Collectable(pkg.Artifacts[k], artifactFilter, st))

\* lines 1250-1265: the task built for one artifact
TaskFor(artifact, finalPackageID, prefix) ==
    DeploymentTask(FinalArtifactID(prefix, artifact),
                   IF artifact.Type = "" THEN "IntegrationFlow" ELSE artifact.Type,
                   finalPackageID, artifact.DisplayName)

\* collectDeploymentTasks
collectDeploymentTasks(pkg, finalPackageID, prefix, artifactFilter, st) ==
    LET idx == CollectedIndices(pkg, artifactFilter, st)
    IN [n \in 1..Len(idx) |-> TaskFor(pkg.Artifacts[idx[n]], finalPackageID, prefix)]

\* lines 997-1002, then the next iteration of the loop of processPackages
CollectStep ==
    /\ pc = "collect"
    /\ LET pkg == CurPackage
           collects == pkg.Deploy /\ DeploysInMode(opts.mode)
           tasks == IF collects
                    THEN collectDeploymentTasks(pkg,
                            FinalPackageID(CurConfig, work[ci].applyPrefix, pkg),
                            CurConfig.DeploymentPrefix, opts.artifactFilter, stats)
                    ELSE <<>>
           idx == IF collects THEN CollectedIndices(pkg, opts.artifactFilter, stats)
                  ELSE <<>>
       IN /\ deploymentTasks' = deploymentTasks \o tasks
          /\ obs' = [obs EXCEPT
                       !.taskOrigin = @ \o [n \in 1..Len(idx) |-> <<ci, pi, idx[n]>>],
                       !.deployer = @ \o [n \in 1..Len(idx) |-> 0],
                       !.collected = IF collects THEN @ \cup {<<ci, pi>>} ELSE @]
    /\ pc' = "pkg" /\ pi' = pi + 1 /\ ai' = 1
    /\ UNCHANGED <<phase1Frame, stats, faults>>

\* processPackages returns (line 1005) and the loop of runOrchestrator takes
\* the next manifest (lines 872, 890)
ConfigDone ==
    /\ pc = "pkg" /\ ci <= Len(work) /\ pi > Len(CurConfig.Packages)
    /\ ci' = ci + 1 /\ pi' = 1
    /\ UNCHANGED <<opts, pd, merged, configFiles, pc, result, tmp, stats, work, ai, deploymentTasks,
                   todo, packageTasks, wpc, werr, semaphore, resultChan, faults, obs>>

(***************************************************************************)
(* Phase 2: deployAllArtifactsParallel.                                    *)
(***************************************************************************)
\* a variant that lets phase 2 start as soon as the first manifest is done
FirstConfigProcessed == ci > 1

\* every manifest went through processPackages
AllConfigsProcessed == ci > Len(work)

\* line 895
RunsPhase2(mode, tasks) == mode # ModeUpdateOnly /\ Len(tasks) > 0

\* lines 1275-1278: the keys of tasksByPackage
PackageIDsOf(tasks) == {tasks[k].PackageID : k \in 1..Len(tasks)}

\* tasksByPackage[packageID], as indices into tasks, in their order
GroupOf(tasks, packageID) ==
    SelectSeq([k \in 1..Len(tasks) |-> k], LAMBDA k : tasks[k].PackageID = packageID)

\* a variant with one slot too many
SemaphoreCapPlusOne(maxConcurrent) == maxConcurrent + 1

\* line 1287: capacity of the semaphore channel
SemaphoreCap(maxConcurrent) == maxConcurrent

\* line 1288: capacity of resultChan
ResultChanCap(group) == Len(group)

\* a variant of the goroutine that keeps its slot
KeepSlot(n) == n

\* line 1297: the deferred receive from the semaphore
ReleaseSlot(n) == n - 1

phase2Frame == <<opts, pd, merged, configFiles, result, tmp, work, ci, pi, ai, deploymentTasks>>

\* lines 894-909: runOrchestrator enters phase 2 or goes on to the summary;
\* deployAllArtifactsParallel groups the tasks by package
StartPhase2 ==
    /\ pc = "pkg" /\ AllConfigsProcessed
    /\ IF RunsPhase2(opts.mode, deploymentTasks)
       THEN pc' = "group" /\ todo' = PackageIDsOf(deploymentTasks)
       ELSE pc' = "summary" /\ UNCHANGED todo
    /\ UNCHANGED <<phase2Frame, stats, packageTasks, wpc, werr, semaphore, resultChan,
                   faults, obs>>

\* lines 1281-1311: the range loop takes some package of the map, makes the
\* channels and starts one goroutine per task
StartGroup ==
    /\ pc = "group" /\ todo # {}
    /\ \E packageID \in todo :
          /\ packageTasks' = GroupOf(deploymentTasks, packageID)
          /\ todo' = todo \ {packageID}
          /\ wpc' = [k \in 1..Len(GroupOf(deploymentTasks, packageID)) |-> "spawned"]
          /\ werr' = [k \in 1..Len(GroupOf(deploymentTasks, packageID)) |-> FALSE]
    /\ semaphore' = 0 /\ resultChan' = <<>>
    /\ pc' = "wait"
    /\ UNCHANGED <<phase2Frame, stats, faults, obs>>

\* line 1296: semaphore <- struct{}{}, then deployArtifacts is called
WorkerAcquire(k) ==
    /\ pc = "wait" /\ wpc[k] = "spawned"
    /\ semaphore < SemaphoreCap(opts.parallelDeployments)
    /\ semaphore' = semaphore + 1
    /\ wpc' = [wpc EXCEPT ![k] = "deploying"]
    /\ obs' = [obs EXCEPT !.deployer[packageTasks[k]] = @ + 1]
    /\ UNCHANGED <<phase2Frame, pc, stats, todo, packageTasks, werr, resultChan, faults>>

\* line 1304: deployArtifacts returns nil or an error
WorkerDeployReturn(k) ==
    /\ pc = "wait" /\ wpc[k] = "deploying"
    /\ \E failed \in BOOLEAN :
          /\ failed => CanFail
          /\ faults' = IF failed THEN faults + 1 ELSE faults
          /\ werr' = [werr EXCEPT ![k] = failed]
          /\ obs' = [obs EXCEPT
                       !.deployFailed = IF failed THEN @ \cup {packageTasks[k]} ELSE @]
    /\ wpc' = [wpc EXCEPT ![k] = "sending"]
    /\ UNCHANGED <<phase2Frame, pc, stats, todo, packageTasks, semaphore, resultChan>>

\* line 1306: resultChan <- deployResult{...}
WorkerSend(k) ==
    /\ pc = "wait" /\ wpc[k] = "sending"
    /\ Len(resultChan) < ResultChanCap(packageTasks)
    /\ resultChan' = Append(resultChan, [Task |-> packageTasks[k], Error |-> werr[k]])
    /\ wpc' = [wpc EXCEPT ![k] = "exiting"]
    /\ UNCHANGED <<phase2Frame, pc, stats, todo, packageTasks, werr, semaphore, faults, obs>>

\* the deferred calls of the goroutine: <-semaphore (line 1297), wg.Done()
WorkerExit(k) ==
    /\ pc = "wait" /\ wpc[k] = "exiting"
    /\ semaphore' = ReleaseSlot(semaphore)
    /\ wpc' = [wpc EXCEPT ![k] = "done"]
    /\ obs' = [obs EXCEPT !.finished = @ \cup {packageTasks[k]}]
    /\ UNCHANGED <<phase2Frame, pc, stats, todo, packageTasks, werr, resultChan, faults>>

Worker(k) == WorkerAcquire(k) \/ WorkerDeployReturn(k) \/ WorkerSend(k) \/ WorkerExit(k)

\* wg.Wait() returns
AllWorkersDone == \A k \in 1..Len(wpc) : wpc[k] = "done"

\* lines 1321-1334: the effect of the results read from the closed channel
ProcessResults(st, results, tasks) ==
    LET failedIdx == {n \in 1..Len(results) : results[n].Error}
        okIdx == {n \in 1..Len(results) : ~results[n].Error}
    IN [st EXCEPT
          !.ArtifactsDeployedFailed = @ + Cardinality(failedIdx),
          !.DeployFailures = @ + Cardinality(failedIdx),
          !.FailedArtifactDeploys = @ \cup {tasks[results[n].Task].ArtifactID : n \in failedIdx},
          !.ArtifactsDeployedSuccess = @ + Cardinality(okIdx),
          !.SuccessfulArtifactDeploys = @ \cup {tasks[results[n].Task].ArtifactID : n \in okIdx}]

\* failureCount of lines 1319-1327
FailureCount(results) == Cardinality({n \in 1..Len(results) : results[n].Error})

\* a variant that counts every group as deployed
CountPackageDeployed(st, failureCount) == [st EXCEPT !.PackagesDeployed = @ + 1]

\* lines 1336-1342
CountPackage(st, failureCount) ==
    IF failureCount = 0
    THEN [st EXCEPT !.PackagesDeployed = @ + 1]
    ELSE [st EXCEPT !.PackagesFailed = @ + 1]

\* lines 1313-1343: wg.Wait(), close(resultChan), the results, the counters
GroupResults ==
    /\ pc = "wait" /\ AllWorkersDone
    /\ stats' = CountPackage(ProcessResults(stats, resultChan, deploymentTasks),
                             FailureCount(resultChan))
    /\ pc' = "group"
    /\ UNCHANGED <<phase2Frame, todo, packageTasks, wpc, werr, semaphore, resultChan,
                   faults, obs>>

\* line 1345: every group is done, deployAllArtifactsParallel returns nil
DeployDone ==
    /\ pc = "group" /\ todo = {}
    /\ pc' = "summary"
    /\ UNCHANGED <<phase2Frame, stats, todo, packageTasks, wpc, werr, semaphore,
                   resultChan, faults, obs>>

\* line 915
HasFailures(st) == st.PackagesFailed > 0 \/ st.UpdateFailures > 0 \/ st.DeployFailures > 0

FailuresError == "deployment completed with failures"

\* lines 911-919: printSummary, then the return value
Summary ==
    /\ pc = "summary"
    /\ Return(IF HasFailures(stats) THEN FailuresError ELSE "nil")
    /\ UNCHANGED <<opts, pd, merged, configFiles, stats, work, ci, pi, ai, deploymentTasks, todo,
                   packageTasks, wpc, werr, semaphore, resultChan, faults>>

(***************************************************************************)
(* Inputs of a whole run.                                                  *)
(***************************************************************************)
\* What differs from the defaults (sync and deploy true, no filter) in a run:
\* nothing, a package filter, an artifact filter, or the sync/deploy flags of
\* the first package or of its first artifact.
Variations ==
    {"default", "packageFilter", "artifactFilter", "pkgNoSync", "pkgNoDeploy",
     "pkgNoSyncNoDeploy", "artNoSync", "artNoDeploy"}

\* how the manifests are prefixed: none has a prefix and the package IDs
\* differ; all have the same prefix and the same package ID; all have their
\* own prefix and the same package ID; all have their own prefix, with a
\* character outside [A-Za-z0-9_], and the same package ID
PrefixSchemes == {"none", "same", "own", "dashed"}

RunArtifact(k, v) ==
    Artifact("A" \o ToString(k), "Flow" \o ToString(k), IF k = 1 THEN "IntegrationFlow" ELSE "",
             ~(k = 1 /\ v = "artNoSync"), ~(k = 1 /\ v = "artNoDeploy"))

RunPackage(id, v, first) ==
    Package(id, IF first THEN "" ELSE "Name " \o id,
            ~(first /\ v \in {"pkgNoSync", "pkgNoSyncNoDeploy"}),
            ~(first /\ v \in {"pkgNoDeploy", "pkgNoSyncNoDeploy"}),
            [k \in 1..MaxArts |-> RunArtifact(k, IF first THEN v ELSE "default")])

RunPrefix(i, scheme) ==
    CASE scheme = "none" -> ""
      [] scheme = "same" -> "DEV"
      [] scheme = "dashed" -> "e-" \o ToString(i)
      [] OTHER -> "E" \o ToString(i)

\* manifest i holds the package P1 and, in the first manifest, a second one
RunManifest(i, scheme, v) ==
    LET id == IF scheme = "none" THEN "P" \o ToString(i) ELSE "P1"
    IN DeployConfigFile(
         DeployConfig(RunPrefix(i, scheme),
                      <<RunPackage(id, v, i = 1)>>
                        \o (IF i = 1 THEN <<RunPackage("Q1", v, FALSE)>> ELSE <<>>)),
         FileNameOf(i))

RunConfigs(n, scheme, v) == [i \in 1..n |-> RunManifest(i, scheme, v)]

\* --deployment-prefix: absent, valid, or with a character outside [A-Za-z0-9_]
CliPrefixes == {"", "X", "a-b"}

RunOptions(mode, keepTemp, mergeConfigs, deploymentPrefix, parallel, v) ==
    [mode |-> mode, keepTemp |-> keepTemp, mergeConfigs |-> mergeConfigs,
     deploymentPrefix |-> deploymentPrefix, parallelDeployments |-> parallel,
     faultBudget |-> MaxFaults,
     packageFilter |-> IF v = "packageFilter" THEN <<"P1">> ELSE <<>>,
     artifactFilter |-> IF v = "artifactFilter" THEN <<"A2">> ELSE <<>>]

\* the state every run starts in, whatever its inputs
InitRun ==
    /\ pc = "start" /\ result = ""
    /\ tmp = NoTmp /\ merged = NoMerge /\ pd = NoPD
    /\ stats = NewStats
    /\ work = <<>> /\ ci = 1 /\ pi = 1 /\ ai = 1
    /\ deploymentTasks = <<>>
    /\ todo = {} /\ packageTasks = <<>> /\ wpc = <<>> /\ werr = <<>>
    /\ semaphore = 0 /\ resultChan = <<>>
    /\ faults = 0
    /\ obs = NewObs

\* The inputs of the runs checked: every combination of the options with
\* MaxConfigs default manifests; every number and prefix scheme of default
\* manifests under the default keepTemp and no command-line prefix; every
\* variation of the manifests with their own prefixes.
RunInputs(keepTemp, deploymentPrefix, v, n, scheme) ==
    \/ v = "default" /\ n = MaxConfigs
    \/ v = "default" /\ ~keepTemp /\ deploymentPrefix = ""
    \/ ~keepTemp /\ deploymentPrefix = "" /\ n = MaxConfigs /\ scheme = "own"

Init ==
    /\ \E mode \in Modes, keepTemp \in BOOLEAN, mergeConfigs \in BOOLEAN,
          deploymentPrefix \in CliPrefixes, parallel \in {MaxParallel},
          v \in Variations, n \in 1..MaxConfigs, scheme \in PrefixSchemes :
          /\ RunInputs(keepTemp, deploymentPrefix, v, n, scheme)
          /\ opts = RunOptions(mode, keepTemp, mergeConfigs, deploymentPrefix, parallel, v)
          /\ configFiles = RunConfigs(n, scheme, v)
    /\ InitRun

Next ==
    \/ Validate \/ LoadConfigs \/ CreateWorkDir \/ GetServiceDetails \/ PrepareConfigs
    \/ PackageStep \/ PackageSyncReturn \/ ArtifactStep \/ ArtifactUpdateReturn
    \/ CollectStep \/ ConfigDone
    \/ StartPhase2 \/ StartGroup
    \/ (\E k \in 1..Len(wpc) : Worker(k))
    \/ GroupResults \/ DeployDone \/ Summary

Spec == Init /\ [][Next]_vars

(***************************************************************************)
(* MergeConfigs called on its own, as its tests call it.                   *)
(***************************************************************************)
\* packages of the manifests merged: one without a display name, and one with
\* a display name whose ID is a prefix followed by the ID of the other
MergePackages ==
    {Package("P1", "", TRUE, TRUE, <<Artifact("A1", "Flow1", "IntegrationFlow", TRUE, TRUE)>>),
     Package("DEVP1", "One", TRUE, TRUE, <<Artifact("A1", "Flow1", "IntegrationFlow", TRUE, TRUE)>>)}

MergePrefixes == {"", "DEV"}

\* all sequences over S of length at most n
RECURSIVE SeqsUpTo(_, _)
SeqsUpTo(S, n) ==
    IF n = 0 THEN {<<>>}
    ELSE SeqsUpTo(S, n - 1) \cup
         {Append(q, x) : q \in {r \in SeqsUpTo(S, n - 1) : Len(r) = n - 1}, x \in S}

MergeManifests ==
    {DeployConfig(prefix, pkgs) : prefix \in MergePrefixes,
                                  pkgs \in SeqsUpTo(MergePackages, MaxMergePkgs)}

\* the list of loaded manifests handed to MergeConfigs
MergeInput(cs) == [i \in 1..Len(cs) |-> DeployConfigFile(cs[i], FileNameOf(i))]

IdleOptions == RunOptions(ModeUpdateAndDeploy, FALSE, TRUE, "", 1, "default")

InitMerge ==
    /\ \E cs \in SeqsUpTo(MergeManifests, MaxMergeConfigs) : configFiles = MergeInput(cs)
    /\ opts = IdleOptions
    /\ pc = "merge" /\ result = ""
    /\ tmp = NoTmp /\ merged = NoMerge /\ pd = NoPD
    /\ stats = NewStats
    /\ work = <<>> /\ ci = 1 /\ pi = 1 /\ ai = 1
    /\ deploymentTasks = <<>>
    /\ todo = {} /\ packageTasks = <<>> /\ wpc = <<>> /\ werr = <<>>
    /\ semaphore = 0 /\ resultChan = <<>>
    /\ faults = 0
    /\ obs = NewObs

\* mergedConfig, err := MergeConfigs(configFiles)
CallMergeConfigs ==
    /\ pc = "merge"
    /\ merged' = MergeConfigs(configFiles)
    /\ configFiles' = MergeConfigs(configFiles).configs
    /\ obs' = [obs EXCEPT !.mergeInput = configFiles]
    /\ pc' = "merged"
    /\ UNCHANGED <<opts, pd, result, tmp, stats, work, ci, pi, ai, deploymentTasks, todo,
                   packageTasks, wpc, werr, semaphore, resultChan, faults>>

NextMerge == CallMergeConfigs

SpecMerge == InitMerge /\ [][NextMerge]_vars

(***************************************************************************)
(* deployAllArtifactsParallel called on its own with any task list, any    *)
(* parallelDeployments >= 1 and any pattern of deployer errors.            *)
(***************************************************************************)
TaskPackages == {"P1", "P2"}

\* n tasks with the artifact IDs T1..Tn; with dup the last task has the
\* artifact ID of the first
DeployTasks(n, pkgOf, dup) ==
    [k \in 1..n |->
        DeploymentTask(IF dup /\ k = n THEN "T1" ELSE "T" \o ToString(k),
                       "IntegrationFlow", pkgOf[k], "Flow" \o ToString(k))]

InitDeploy ==
    /\ \E n \in 0..MaxTasks, parallel \in 1..MaxParallel, dup \in BOOLEAN :
          \E pkgOf \in [1..n -> TaskPackages] :
             /\ dup => n >= 2
             /\ deploymentTasks = DeployTasks(n, pkgOf, dup)
             /\ opts = [RunOptions(ModeUpdateAndDeploy, FALSE, FALSE, "", parallel, "default")
                          EXCEPT !.faultBudget = n]
             /\ obs = [NewObs EXCEPT !.deployer = [k \in 1..n |-> 0]]
    /\ todo = PackageIDsOf(deploymentTasks)
    /\ pc = "group" /\ result = ""
    /\ configFiles = <<>>
    /\ tmp = NoTmp /\ merged = NoMerge /\ pd = NoPD
    /\ stats = NewStats
    /\ work = <<>> /\ ci = 1 /\ pi = 1 /\ ai = 1
    /\ packageTasks = <<>> /\ wpc = <<>> /\ werr = <<>>
    /\ semaphore = 0 /\ resultChan = <<>>
    /\ faults = 0

MainDeploy == StartGroup \/ GroupResults \/ DeployDone

NextDeploy == MainDeploy \/ (\E k \in 1..Len(wpc) : Worker(k))

SpecDeploy == InitDeploy /\ [][NextDeploy]_vars

\* The Go scheduler runs every goroutine that can take a step, and every call
\* of the deployer returns.
SpecDeployFair ==
    /\ SpecDeploy
    /\ WF_vars(MainDeploy)
    /\ \A k \in 1..MaxTasks : WF_vars(k \in DOMAIN wpc /\ Worker(k))

(***************************************************************************)
(* pd-deploy: deployPartnerDirectory, deployStringParameters,              *)
(* deployBinaryParameters, deleteRemoteEntriesNotInLocal.                  *)
(*                                                                         *)
(* pd.local is the resources directory: one entry per partner directory,   *)
(* in the ascending order GetLocalPIDs returns them in, with the string    *)
(* parameters of String.properties and the binary parameters of Binary/.   *)
(* pd.remote is the tenant: its string and its binary parameters in the    *)
(* order the list calls return them in.                                    *)
(***************************************************************************)
\* contains(slice, str)
contains(slice, str) == \E k \in 1..Len(slice) : slice[k] = str

\* filterPIDs(pids, filter)
filterPIDs(pids, filter) ==
    IF Len(filter) = 0 THEN pids
    ELSE SelectSeq(pids, LAMBDA pid : contains(filter, pid))

\* api.StringParameter and api.BinaryParameter
StringParameter(pid, id, value) == [Pid |-> pid, ID |-> id, Value |-> value]

BinaryParameter(pid, id, value, contentType) ==
    [Pid |-> pid, ID |-> id, Value |-> value, ContentType |-> contentType]

\* api.BatchResult with empty lists; an entry of Errors is the key of the
\* message with the call that failed standing for the text of its error
NewBatchResult ==
    [Created |-> <<>>, Updated |-> <<>>, Unchanged |-> <<>>, Deleted |-> <<>>,
     Errors |-> <<>>]

\* key := fmt.Sprintf("%s/%s", param.Pid, param.ID)
ParamKey(pid, id) == pid \o "/" \o id

\* GetLocalPIDs: the names of the directories, sorted
GetLocalPIDs(local) == [k \in 1..Len(local) |-> local[k].Pid]

\* ReadStringParameters(pid) and ReadBinaryParameters(pid): the parameters of
\* the partner's files, each with Pid = pid; none without such a directory
ReadParameters(local, kind, pid) ==
    LET ks == {k \in 1..Len(local) : local[k].Pid = pid}
    IN IF ks = {} THEN <<>>
       ELSE LET e == local[CHOOSE k \in ks : TRUE]
                ps == IF kind = "string" THEN e.strings ELSE e.binaries
            IN [n \in 1..Len(ps) |-> [ps[n] EXCEPT !.Pid = pid]]

\* the tenant's parameters of a kind
RemoteOf(remote, kind) == IF kind = "string" THEN remote.str ELSE remote.bin

\* GetStringParameter / GetBinaryParameter: the position of the parameter on
\* the tenant, 0 for nil (404)
RemoteIndex(list, pid, id) ==
    IF \E k \in 1..Len(list) : list[k].Pid = pid /\ list[k].ID = id
    THEN CHOOSE k \in 1..Len(list) : list[k].Pid = pid /\ list[k].ID = id
    ELSE 0

\* lines 1728 and 1752 of deployStringParameters
StringDiffers(existing, param) == existing.Value # param.Value

\* a variant that compares the content type as well
BinaryPairDiffers(existing, param) ==
    existing.Value # param.Value \/ existing.ContentType # param.ContentType

\* lines 1812 and 1836 of deployBinaryParameters
BinaryDiffers(existing, param) == existing.Value # param.Value

ParamDiffers(kind, existing, param) ==
    IF kind = "string" THEN StringDiffers(existing, param)
    ELSE BinaryDiffers(existing, param)

\* what the loop body does with a parameter once the probe returned:
\* "create", "update" or "unchanged"
\* a variant that updates whatever replace says
DispatchIgnoringReplace(kind, list, param, replace) ==
    LET k == RemoteIndex(list, param.Pid, param.ID)
    IN IF k = 0 THEN "create"
       ELSE IF ParamDiffers(kind, list[k], param) THEN "update"
       ELSE "unchanged"

\* lines 1725-1733 and 1744-1762
Dispatch(kind, list, param, replace) ==
    LET k == RemoteIndex(list, param.Pid, param.ID)
    IN IF k = 0 THEN "create"
       ELSE IF replace /\ ParamDiffers(kind, list[k], param) THEN "update"
       ELSE "unchanged"

\* lines 1719-1733 and 1803-1817: the same tests in the dry-run branch
DryRunDispatch(kind, list, param, replace) ==
    LET k == RemoteIndex(list, param.Pid, param.ID)
    IN IF k = 0 THEN "create"
       ELSE IF replace /\ ParamDiffers(kind, list[k], param) THEN "update"
       ELSE "unchanged"

\* a variant of dry-run that sends the calls
MutatesAlways(dryRun) == TRUE

\* lines 1717 and 1801: the calls that change the tenant are made unless dryRun
Mutates(dryRun) == ~dryRun

\* the tenant's list after a successful create or update of param
ApplyMutation(list, op, param) ==
    IF op = "create" THEN Append(list, param)
    ELSE [list EXCEPT ![RemoteIndex(list, param.Pid, param.ID)] = param]

\* a call that changes the tenant, as the tenant sees it
MutationCall(op, kind, pid, id) == [op |-> op, kind |-> kind, Pid |-> pid, ID |-> id]

\* results.Errors = append(results.Errors, fmt.Sprintf("%s: %v", key, err))
AddError(res, key, cause) ==
    [res EXCEPT !.Errors = Append(@, [Key |-> key, cause |-> cause])]

\* what one iteration of the parameter loop did, for the record: the
\* parameter, what the probe answered and the call that followed it
Probed(kind, param, probeFails, list, issued, failed) ==
    LET k == RemoteIndex(list, param.Pid, param.ID)
    IN [kind |-> kind, param |-> param, probeFailed |-> probeFails,
        existed |-> k # 0, existing |-> IF k = 0 THEN param ELSE list[k],
        issued |-> issued, failed |-> failed]

\* one iteration of the loop over the parameters of a partner: the probe,
\* then the create or the update or none; the results, the tenant and the
\* calls made
DeployOne(kind, param, st, replace, dryRun, probeFails, mutationFails) ==
    LET key == ParamKey(param.Pid, param.ID)
        list == RemoteOf(st.remote, kind)
        op == IF dryRun THEN DryRunDispatch(kind, list, param, replace)
              ELSE Dispatch(kind, list, param, replace)
        field == IF kind = "string" THEN "stringResults" ELSE "binaryResults"
        res == st[field]
        rfield == IF kind = "string" THEN "str" ELSE "bin"
        record(r) == IF op = "create" THEN [r EXCEPT !.Created = Append(@, key)]
                     ELSE IF op = "update" THEN [r EXCEPT !.Updated = Append(@, key)]
                     ELSE [r EXCEPT !.Unchanged = Append(@, key)]
        get == MutationCall("get", kind, param.Pid, param.ID)
        call == MutationCall(op, kind, param.Pid, param.ID)
    IN IF probeFails
       THEN [st EXCEPT ![field] = AddError(res, key, "probe"),
                       !.calls = @ \cup {get},
                       !.trace = Append(@, Probed(kind, param, TRUE, list, "none", FALSE))]
       ELSE IF op = "unchanged" \/ ~Mutates(dryRun)
       THEN [st EXCEPT ![field] = record(res),
                       !.calls = @ \cup {get},
                       !.trace = Append(@, Probed(kind, param, FALSE, list, "none", FALSE))]
       ELSE IF mutationFails
       THEN [st EXCEPT ![field] = AddError(res, key, op),
                       !.calls = @ \cup {get, call},
                       !.trace = Append(@, Probed(kind, param, FALSE, list, op, TRUE))]
       ELSE [st EXCEPT ![field] = record(res),
                       !.remote[rfield] = ApplyMutation(list, op, param),
                       !.calls = @ \cup {get, call},
                       !.trace = Append(@, Probed(kind, param, FALSE, list, op, FALSE))]

pdFrame ==
    UNCHANGED <<opts, configFiles, merged, tmp, stats, work, ci, pi, ai,
                deploymentTasks, todo, packageTasks, wpc, werr, semaphore,
                resultChan, obs>>

\* a return of deployPartnerDirectory
PDReturn(res) == result' = res /\ pc' = "returned"

\* deployPartnerDirectory, lines 1587-1602: the managed partner IDs
PDStart ==
    /\ pc = "pd_start"
    /\ \/ /\ CanFail
          /\ faults' = faults + 1
          /\ PDReturn("failed to get local PIDs")
          /\ pd' = pd
       \/ LET managedPIDs == GetLocalPIDs(pd.local)
              filteredPIDs == filterPIDs(managedPIDs, opts.pidsFilter)
          IN /\ faults' = faults
             /\ IF Len(opts.pidsFilter) > 0 /\ Len(filteredPIDs) = 0
                THEN PDReturn("no PIDs match the filter") /\ pd' = pd
                ELSE /\ pd' = [pd EXCEPT !.managedPIDs = filteredPIDs]
                     /\ pc' = "pd_string_begin" /\ result' = result
    /\ pdFrame

\* the kind of parameter a position of the program deals with
KindAt(p) == IF p \in {"pd_string_begin", "pd_string", "pd_delete_string"}
             THEN "string" ELSE "binary"

\* deployStringParameters / deployBinaryParameters up to the loop: the local
\* partner IDs, filtered, and empty results
BeginDeploy ==
    /\ pc \in {"pd_string_begin", "pd_binary_begin"}
    /\ \/ /\ CanFail
          /\ faults' = faults + 1
          /\ PDReturn(IF KindAt(pc) = "string"
                      THEN "failed to deploy string parameters"
                      ELSE "failed to deploy binary parameters")
          /\ pd' = pd
       \/ /\ faults' = faults
          /\ pd' = [pd EXCEPT
                      !.localPIDs = filterPIDs(GetLocalPIDs(pd.local), opts.pidsFilter),
                      !.i = 1, !.j = 0, !.parameters = <<>>]
          /\ pc' = (IF KindAt(pc) = "string" THEN "pd_string" ELSE "pd_binary")
          /\ result' = result
    /\ pdFrame

\* the head of the loop over the partner IDs: the read of the partner's
\* parameters; a failed read is recorded and the loop goes on
ReadPartner ==
    /\ pc \in {"pd_string", "pd_binary"}
    /\ pd.j = 0 /\ pd.i <= Len(pd.localPIDs)
    /\ LET pid == pd.localPIDs[pd.i]
           kind == KindAt(pc)
           field == IF kind = "string" THEN "stringResults" ELSE "binaryResults"
           parameters == ReadParameters(pd.local, kind, pid)
       IN \/ /\ CanFail
             /\ faults' = faults + 1
             /\ pd' = [pd EXCEPT ![field] = AddError(@, pid, "read"),
                                 !.unread = @ \cup {<<kind, pid>>},
                                 !.i = @ + 1]
          \/ /\ faults' = faults
             /\ pd' = IF Len(parameters) = 0
                      THEN [pd EXCEPT !.i = @ + 1]
                      ELSE [pd EXCEPT !.parameters = parameters, !.j = 1]
    /\ UNCHANGED <<pc, result>>
    /\ pdFrame

\* one iteration of the loop over the parameters of the partner
DeployParameter ==
    /\ pc \in {"pd_string", "pd_binary"}
    /\ pd.j >= 1
    /\ \E probeFails, mutationFails \in BOOLEAN :
         /\ (probeFails \/ mutationFails) => CanFail
         /\ ~(probeFails /\ mutationFails)
         /\ LET kind == KindAt(pc)
                param == pd.parameters[pd.j]
                after == DeployOne(kind, param, pd, opts.replace, opts.dryRun,
                                   probeFails, mutationFails)
                last == pd.j = Len(pd.parameters)
            IN /\ mutationFails =>
                    after.trace[Len(after.trace)].issued # "none"
               /\ faults' = (IF probeFails \/ mutationFails
                             THEN faults + 1 ELSE faults)
               /\ pd' = [after EXCEPT !.j = IF last THEN 0 ELSE @ + 1,
                                      !.i = IF last THEN @ + 1 ELSE @]
    /\ UNCHANGED <<pc, result>>
    /\ pdFrame

\* a variant that deletes in dry-run as well
DeletesWithFullSync(fullSync, dryRun) == fullSync

\* line 1628: if fullSync && !dryRun
Deletes(fullSync, dryRun) == fullSync /\ ~dryRun

\* the end of the loop over the partner IDs: deployStringParameters returns
\* to deployBinaryParameters, that to the deletion or to the summary
DeployLoopDone ==
    /\ pc \in {"pd_string", "pd_binary"}
    /\ pd.j = 0 /\ pd.i > Len(pd.localPIDs)
    /\ pc' = (IF pc = "pd_string" THEN "pd_binary_begin"
              ELSE IF Deletes(opts.fullSync, opts.dryRun) THEN "pd_delete_load"
              ELSE "pd_summary")
    /\ UNCHANGED <<pd, faults, result>>
    /\ pdFrame

\* a variant that takes every partner ID of the tenant as managed
ManagedAny(managedPIDs, pid) == TRUE

\* lines 1899 and 1921: if !contains(managedPIDs, param.Pid) { continue }
Managed(managedPIDs, pid) == contains(managedPIDs, pid)

\* the IDs of the local parameters of the partners whose read succeeded, as
\* pairs <<pid, id>>; localStringParams[pid][id] is true exactly for these
LocalIDs(local, kind, pids) ==
    UNION {{<<pid, ReadParameters(local, kind, pid)[n].ID>> :
               n \in 1..Len(ReadParameters(local, kind, pid))} : pid \in pids}

\* deleteRemoteEntriesNotInLocal, lines 1859-1889: the local parameters of
\* the managed partners; a failed read is logged and leaves the partner
\* without an entry in the map
DeleteLoad ==
    /\ pc = "pd_delete_load"
    /\ LET managed == {pd.managedPIDs[k] : k \in 1..Len(pd.managedPIDs)}
       IN \E failS, failB \in SUBSET managed :
            /\ faults + Cardinality(failS) + Cardinality(failB) <= opts.faultBudget
            /\ faults' = faults + Cardinality(failS) + Cardinality(failB)
            /\ pd' = [pd EXCEPT
                        !.results = NewBatchResult,
                        !.localStringParams = LocalIDs(pd.local, "string", managed \ failS),
                        !.localBinaryParams = LocalIDs(pd.local, "binary", managed \ failB)]
    /\ pc' = "pd_delete_list_string"
    /\ result' = result
    /\ pdFrame

\* GetStringParameters / GetBinaryParameters: the list of the tenant's
\* parameters; a failure ends the deletion with an error and no results
ListRemote ==
    /\ pc \in {"pd_delete_list_string", "pd_delete_list_binary"}
    /\ LET kind == IF pc = "pd_delete_list_string" THEN "string" ELSE "binary"
           list == MutationCall("list", kind, "", "")
       IN \/ /\ CanFail
             /\ faults' = faults + 1
             /\ pd' = [pd EXCEPT !.calls = @ \cup {list}, !.deletionError = TRUE]
             /\ pc' = "pd_summary"
          \/ /\ faults' = faults
             /\ pd' = [pd EXCEPT !.calls = @ \cup {list},
                                 !.listing = RemoteOf(pd.remote, kind),
                                 !.i = 1]
             /\ pc' = (IF kind = "string" THEN "pd_delete_string"
                       ELSE "pd_delete_binary")
    /\ result' = result
    /\ pdFrame

\* the tenant's list without the parameter
RemoveParameter(list, pid, id) ==
    SelectSeq(list, LAMBDA e : ~(e.Pid = pid /\ e.ID = id))

\* one iteration of the loop over the tenant's parameters
DeleteEntry ==
    /\ pc \in {"pd_delete_string", "pd_delete_binary"}
    /\ pd.i <= Len(pd.listing)
    /\ LET kind == KindAt(pc)
           param == pd.listing[pd.i]
           key == ParamKey(param.Pid, param.ID)
           localParams == IF kind = "string" THEN pd.localStringParams
                          ELSE pd.localBinaryParams
           rfield == IF kind = "string" THEN "str" ELSE "bin"
           call == MutationCall("delete", kind, param.Pid, param.ID)
       IN IF ~Managed(pd.managedPIDs, param.Pid) \/ <<param.Pid, param.ID>> \in localParams
          THEN /\ pd' = [pd EXCEPT !.i = @ + 1]
               /\ faults' = faults
          ELSE \/ /\ CanFail
                  /\ faults' = faults + 1
                  /\ pd' = [pd EXCEPT !.i = @ + 1,
                                      !.calls = @ \cup {call},
                                      !.results = AddError(@, key, "delete")]
               \/ /\ faults' = faults
                  /\ pd' = [pd EXCEPT !.i = @ + 1,
                                      !.calls = @ \cup {call},
                                      !.results.Deleted = Append(@, key),
                                      !.remote[rfield] =
                                          RemoveParameter(@, param.Pid, param.ID)]
    /\ UNCHANGED <<pc, result>>
    /\ pdFrame

\* the end of a loop over the tenant's parameters; after the binary
\* parameters deleteRemoteEntriesNotInLocal returns its results
DeleteLoopDone ==
    /\ pc \in {"pd_delete_string", "pd_delete_binary"}
    /\ pd.i > Len(pd.listing)
    /\ IF pc = "pd_delete_string"
       THEN pc' = "pd_delete_list_binary" /\ pd' = pd
       ELSE pc' = "pd_summary" /\ pd' = [pd EXCEPT !.deletionResults = pd.results,
                                                   !.deleted = TRUE]
    /\ UNCHANGED <<faults, result>>
    /\ pdFrame

\* lines 1655-1682: the summary is logged and nil returned, whatever the
\* Errors lists hold
PDSummary ==
    /\ pc = "pd_summary"
    /\ PDReturn("nil")
    /\ UNCHANGED <<pd, faults>>
    /\ pdFrame

(***************************************************************************)
(* The runs of pd-deploy: two local partner directories A and B, a tenant  *)
(* that holds each of their parameters or not, equal or different, and     *)
(* parameters of its own, some of partner A and some of a partner C that   *)
(* has no local directory.                                                 *)
(***************************************************************************)
PDLocal ==
    << [Pid |-> "A",
        strings |-> [n \in 1..MaxParams |->
                        StringParameter("", "k" \o ToString(n), "v")],
        binaries |-> <<BinaryParameter("", "b1", "d", "xml")>>],
       [Pid |-> "B",
        strings |-> <<StringParameter("", "k1", "v")>>,
        binaries |-> <<>>] >>

\* every local parameter of a kind, in the order of the directories
LocalParameters(kind) ==
    ReadParameters(PDLocal, kind, "A") \o ReadParameters(PDLocal, kind, "B")

RemoteStates(kind) ==
    IF kind = "string" THEN {"absent", "same", "value"}
    ELSE {"absent", "same", "value", "type"}

\* the tenant's copy of a local parameter
RemoteVariant(param, state) ==
    IF state = "value" THEN [param EXCEPT !.Value = "w"]
    ELSE IF state = "type" THEN [param EXCEPT !.ContentType = "json"]
    ELSE param

RECURSIVE RemoteCopies(_, _, _)
RemoteCopies(params, states, k) ==
    IF k > Len(params) THEN <<>>
    ELSE (IF states[k] = "absent" THEN <<>>
          ELSE <<RemoteVariant(params[k], states[k])>>)
         \o RemoteCopies(params, states, k + 1)

\* the tenant: the copies of the local parameters, then its own parameters
PDRemote(ss, bs) ==
    [str |-> RemoteCopies(LocalParameters("string"), ss, 1)
             \o <<StringParameter("A", "x", "v"), StringParameter("C", "k1", "v")>>,
     bin |-> RemoteCopies(LocalParameters("binary"), bs, 1)
             \o <<BinaryParameter("A", "bx", "d", "xml"),
                  BinaryParameter("C", "b1", "d", "xml")>>]

PDFilters == {<<>>, <<"A">>, <<"C">>}

PDOptions(replace, fullSync, dryRun, pidsFilter, budget) ==
    [replace |-> replace, fullSync |-> fullSync, dryRun |-> dryRun,
     pidsFilter |-> pidsFilter, faultBudget |-> budget]

NewPD(remote) ==
    [local |-> PDLocal, remote |-> remote, remote0 |-> remote,
     managedPIDs |-> <<>>, localPIDs |-> <<>>, i |-> 1, j |-> 0,
     parameters |-> <<>>, listing |-> <<>>,
     stringResults |-> NewBatchResult, binaryResults |-> NewBatchResult,
     results |-> NewBatchResult, deletionResults |-> NewBatchResult,
     deleted |-> FALSE, deletionError |-> FALSE,
     localStringParams |-> {}, localBinaryParams |-> {},
     calls |-> {}, trace |-> <<>>, unread |-> {}]

InitPD ==
    /\ \E replace, fullSync, dryRun \in BOOLEAN, pidsFilter \in PDFilters :
         opts = PDOptions(replace, fullSync, dryRun, pidsFilter, MaxFaults)
    /\ \E ss \in [1..Len(LocalParameters("string")) -> RemoteStates("string")],
          bs \in [1..Len(LocalParameters("binary")) -> RemoteStates("binary")] :
         pd = NewPD(PDRemote(ss, bs))
    /\ pc = "pd_start" /\ result = ""
    /\ configFiles = <<>>
    /\ tmp = NoTmp /\ merged = NoMerge
    /\ stats = NewStats
    /\ work = <<>> /\ ci = 1 /\ pi = 1 /\ ai = 1
    /\ deploymentTasks = <<>>
    /\ todo = {} /\ packageTasks = <<>> /\ wpc = <<>> /\ werr = <<>>
    /\ semaphore = 0 /\ resultChan = <<>>
    /\ faults = 0 /\ obs = NewObs

NextPD ==
    \/ PDStart
    \/ BeginDeploy
    \/ ReadPartner
    \/ DeployParameter
    \/ DeployLoopDone
    \/ DeleteLoad
    \/ ListRemote
    \/ DeleteEntry
    \/ DeleteLoopDone
    \/ PDSummary

SpecPD == InitPD /\ [][NextPD]_vars

(***************************************************************************)
(* pd-snapshot: snapshotPartnerDirectory, snapshotStringParameters,        *)
(* snapshotBinaryParameters and WriteBinaryParameters.                     *)
(*                                                                         *)
(* pd.files is the set of the binary files under the resources directory,  *)
(* each as "<pid>/<file name>"; pd.props the partners with a               *)
(* String.properties; pd.groups is paramsByPid and pd.pending the partner  *)
(* IDs the range over that map has still to visit, in any order.           *)
(***************************************************************************)
Base64Alphabet == "ABCDEFGHIJKLMNOPQRSTUVWXYZabcdefghijklmnopqrstuvwxyz0123456789+/"

\* base64.StdEncoding.DecodeString succeeds: groups of four characters of
\* the alphabet, padded with "=" at the end only
DecodesBase64(value) ==
    LET chars == {SubSeq(Base64Alphabet, k, k) : k \in 1..Len(Base64Alphabet)}
        n == Len(value)
        pad == Cardinality({k \in 1..n : SubSeq(value, k, k) = "="})
    IN /\ n % 4 = 0
       /\ pad <= 2
       /\ \A k \in 1..n : IF k > n - pad THEN SubSeq(value, k, k) = "="
                          ELSE SubSeq(value, k, k) \in chars

supportedContentTypes == {"xml", "xsl", "xsd", "json", "txt", "zip", "gz", "zlib", "crt"}

\* parseContentType, its first result: the type without parameters and,
\* for a MIME type, its subtype
parseContentType(contentType) ==
    LET idx == Index(contentType, ";")
        baseType == IF idx > 1 THEN TrimSpace(SubSeq(contentType, 1, idx - 1))
                    ELSE contentType
        slash == Index(baseType, "/")
        subtype == SubSeq(baseType, slash + 1, Len(baseType))
    IN IF slash > 0 /\ slash = LastIndex(baseType, "/")
       THEN (IF subtype = "octet-stream" THEN "bin" ELSE subtype)
       ELSE baseType

isAlphanumeric(s) ==
    \A k \in 1..Len(s) : SubSeq(s, k, k) \in PrefixChars \ {"_"}

\* a variant that resolves the extension in lower case
getFileExtensionLower(contentType) ==
    LET ext == ToLower(parseContentType(contentType))
    IN IF ext \in supportedContentTypes THEN ext
       ELSE IF ext # "" /\ Len(ext) >= 2 /\ Len(ext) <= 5 /\ isAlphanumeric(ext) THEN ext
       ELSE "bin"

getFileExtension(contentType) ==
    LET ext == parseContentType(contentType)
    IN IF ToLower(ext) \in supportedContentTypes THEN ext
       ELSE IF ext # "" /\ Len(ext) >= 2 /\ Len(ext) <= 5 /\ isAlphanumeric(ext) THEN ext
       ELSE "bin"

\* saveBinaryParameterToFile and updateMetadataFile: the name of the file,
\* {ParamId}.{ext} unless the ID in lower case ends with "." and ext
BinaryFileName(paramID, contentType) ==
    LET ext == getFileExtension(contentType)
    IN IF ext # "" /\ ~HasSuffix(ToLower(paramID), "." \o ext)
       THEN paramID \o "." \o ext
       ELSE paramID

\* the path of the file under the resources directory
BinaryFilePath(pid, param) ==
    pid \o "/" \o BinaryFileName(param.ID, param.ContentType)

\* WriteBinaryParameters from the k-th parameter on: a parameter whose
\* bare ID is a file is skipped unless replace; the first value that cannot
\* be decoded ends the call with an error
RECURSIVE WriteBinaryParameters(_, _, _, _, _)
WriteBinaryParameters(files, pid, params, replace, k) ==
    IF k > Len(params) THEN [files |-> files, err |-> FALSE]
    ELSE IF ~replace /\ (pid \o "/" \o params[k].ID) \in files
    THEN WriteBinaryParameters(files, pid, params, replace, k + 1)
    ELSE IF ~DecodesBase64(params[k].Value) THEN [files |-> files, err |-> TRUE]
    ELSE WriteBinaryParameters(files \cup {BinaryFilePath(pid, params[k])},
                               pid, params, replace, k + 1)

\* the filter of the --pids option on the tenant's parameters
FilterByPids(parameters, pidsFilter) ==
    IF Len(pidsFilter) > 0
    THEN SelectSeq(parameters, LAMBDA param : contains(pidsFilter, param.Pid))
    ELSE parameters

\* paramsByPid[pid]
GroupByPid(parameters, pid) == SelectSeq(parameters, LAMBDA param : param.Pid = pid)

\* snapshotStringParameters / snapshotBinaryParameters up to the loop: the
\* tenant's parameters, filtered and grouped by partner
SnapshotBegin ==
    /\ pc \in {"snap_string_begin", "snap_binary_begin"}
    /\ LET kind == IF pc = "snap_string_begin" THEN "string" ELSE "binary"
           parameters == FilterByPids(RemoteOf(pd.remote, kind), opts.pidsFilter)
       IN \/ /\ CanFail
             /\ faults' = faults + 1
             /\ PDReturn(IF kind = "string"
                         THEN "failed to download string parameters"
                         ELSE "failed to download binary parameters")
             /\ pd' = pd
          \/ /\ faults' = faults
             /\ pd' = [pd EXCEPT
                         !.groups = parameters,
                         !.pending = {parameters[k].Pid : k \in 1..Len(parameters)}]
             /\ pc' = (IF kind = "string" THEN "snap_string" ELSE "snap_binary")
             /\ result' = result
    /\ pdFrame

\* a variant that goes on with the next partner after a failed write
GoesOnAfterWriteError(err) == FALSE

\* lines 556-558 and 594-596: if err != nil { return 0, ... }
ReturnsOnWriteError(err) == err

\* one iteration of the range over paramsByPid: the write of the
\* parameters of one partner
SnapshotWrite ==
    /\ pc \in {"snap_string", "snap_binary"}
    /\ \E pid \in pd.pending :
         LET pidParams == GroupByPid(pd.groups, pid)
             w == WriteBinaryParameters(pd.files, pid, pidParams, opts.replace, 1)
         IN IF pc = "snap_string"
            THEN \/ /\ CanFail
                    /\ faults' = faults + 1
                    /\ PDReturn("failed to download string parameters")
                    /\ pd' = pd
                 \/ /\ faults' = faults
                    /\ pd' = [pd EXCEPT !.props = @ \cup {pid},
                                        !.pending = @ \ {pid}]
                    /\ UNCHANGED <<pc, result>>
            ELSE /\ faults' = faults
                 /\ pd' = [pd EXCEPT !.files = w.files,
                                     !.pending = @ \ {pid},
                                     !.writeErrors = IF w.err THEN @ \cup {pid} ELSE @]
                 /\ IF ReturnsOnWriteError(w.err)
                    THEN PDReturn("failed to download binary parameters")
                    ELSE UNCHANGED <<pc, result>>
    /\ pdFrame

\* the end of the range: snapshotStringParameters returns to
\* snapshotBinaryParameters, that to the return of nil
SnapshotDone ==
    /\ pc \in {"snap_string", "snap_binary"}
    /\ pd.pending = {}
    /\ IF pc = "snap_string"
       THEN pc' = "snap_binary_begin" /\ result' = result
       ELSE PDReturn("nil")
    /\ UNCHANGED <<pd, faults>>
    /\ pdFrame

\* the tenant of the snapshot runs: each binary parameter of A and B is
\* absent, or has a value that decodes, or one that does not
SnapshotValue(state) == IF state = "ok" THEN "ZA==" ELSE "Z*=="

RECURSIVE SnapshotBinaries(_, _, _)
SnapshotBinaries(keys, states, k) ==
    IF k > Len(keys) THEN <<>>
    ELSE (IF states[k] = "absent" THEN <<>>
          ELSE <<BinaryParameter(keys[k][1], keys[k][2],
                                 SnapshotValue(states[k]), "xml")>>)
         \o SnapshotBinaries(keys, states, k + 1)

SnapshotKeys == [n \in 1..MaxParams |-> <<"A", "b" \o ToString(n)>>] \o << <<"B", "b1">> >>

InitSnapshot ==
    /\ \E replace \in BOOLEAN, pidsFilter \in PDFilters :
         opts = [replace |-> replace, pidsFilter |-> pidsFilter,
                 faultBudget |-> MaxFaults]
    /\ \E states \in [1..Len(SnapshotKeys) -> {"absent", "ok", "bad"}],
          files \in SUBSET {"A/b1", "A/b1.xml"} :
         pd = [remote |-> [str |-> <<StringParameter("A", "k1", "v"),
                                     StringParameter("B", "k1", "v")>>,
                           bin |-> SnapshotBinaries(SnapshotKeys, states, 1)],
               files |-> files, files0 |-> files, props |-> {},
               groups |-> <<>>, pending |-> {}, writeErrors |-> {}]
    /\ pc = "snap_string_begin" /\ result = ""
    /\ configFiles = <<>>
    /\ tmp = NoTmp /\ merged = NoMerge
    /\ stats = NewStats
    /\ work = <<>> /\ ci = 1 /\ pi = 1 /\ ai = 1
    /\ deploymentTasks = <<>>
    /\ todo = {} /\ packageTasks = <<>> /\ wpc = <<>> /\ werr = <<>>
    /\ semaphore = 0 /\ resultChan = <<>>
    /\ faults = 0 /\ obs = NewObs

NextSnapshot ==
    \/ SnapshotBegin
    \/ SnapshotWrite
    \/ SnapshotDone

SpecSnapshot == InitSnapshot /\ [][NextSnapshot]_vars

(***************************************************************************)
(* String.properties: escapePropertyValue, unescapePropertyValue,          *)
(* writePropertiesFile, mergePropertiesFile, readPropertiesFile.           *)
(* A file is its content, a string; "\n" is the line feed, "\r" the        *)
(* carriage return and "\\" the backslash.                                 *)
(***************************************************************************)
\* strings.ReplaceAll: the non-overlapping occurrences of old, from the left
RECURSIVE ReplaceAll(_, _, _)
ReplaceAll(s, old, new) ==
    IF Len(s) < Len(old) THEN s
    ELSE IF SubSeq(s, 1, Len(old)) = old
    THEN new \o ReplaceAll(SubSeq(s, Len(old) + 1, Len(s)), old, new)
    ELSE SubSeq(s, 1, 1) \o ReplaceAll(SubSeq(s, 2, Len(s)), old, new)

escapePropertyValue(value) ==
    ReplaceAll(ReplaceAll(ReplaceAll(value, "\\", "\\\\"), "\n", "\\n"), "\r", "\\r")

\* a variant that undoes the doubling of the backslash first
unescapeBackslashFirst(value) ==
    ReplaceAll(ReplaceAll(ReplaceAll(value, "\\\\", "\\"), "\\n", "\n"), "\\r", "\r")

\* a variant that reads the escapes in one pass from the left
RECURSIVE unescapeOnePass(_)
unescapeOnePass(value) ==
    IF Len(value) < 2 THEN value
    ELSE LET two == SubSeq(value, 1, 2)
             rest == SubSeq(value, 3, Len(value))
         IN IF two = "\\\\" THEN "\\" \o unescapeOnePass(rest)
            ELSE IF two = "\\n" THEN "\n" \o unescapeOnePass(rest)
            ELSE IF two = "\\r" THEN "\r" \o unescapeOnePass(rest)
            ELSE SubSeq(value, 1, 1) \o unescapeOnePass(SubSeq(value, 2, Len(value)))

unescapePropertyValue(value) ==
    ReplaceAll(ReplaceAll(ReplaceAll(value, "\\n", "\n"), "\\r", "\r"), "\\\\", "\\")

\* strings.Split(s, "\n")
RECURSIVE SplitLines(_, _)
SplitLines(s, line) ==
    IF Len(s) = 0 THEN <<line>>
    ELSE IF SubSeq(s, 1, 1) = "\n" THEN <<line>> \o SplitLines(SubSeq(s, 2, Len(s)), "")
    ELSE SplitLines(SubSeq(s, 2, Len(s)), line \o SubSeq(s, 1, 1))

\* the position of the first "=" of a line, 0 if it has none
FirstEquals(line) ==
    IF \E k \in 1..Len(line) : SubSeq(line, k, k) = "="
    THEN CHOOSE k \in 1..Len(line) :
            /\ SubSeq(line, k, k) = "="
            /\ \A n \in 1..(k - 1) : SubSeq(line, n, n) # "="
    ELSE 0

\* the loop over the lines in mergePropertiesFile and readPropertiesFile:
\* the pairs parts[0], parts[1] of the lines that are neither empty nor
\* comments and hold an "=", after TrimSpace
RECURSIVE ParseLines(_, _)
ParseLines(lines, k) ==
    IF k > Len(lines) THEN <<>>
    ELSE LET line == TrimSpace(lines[k])
             e == FirstEquals(line)
         IN (IF line = "" \/ SubSeq(line, 1, 1) = "#" \/ e = 0 THEN <<>>
             ELSE <<[key |-> SubSeq(line, 1, e - 1),
                     raw |-> SubSeq(line, e + 1, Len(line))]>>)
            \o ParseLines(lines, k + 1)

\* the characters of the keys and file names in the order of their bytes
ByteOrder ==
    "\t\n\r #*+-./0123456789:;=ABCDEFGHIJKLMNOPQRSTUVWXYZ\\_abcdefghijklmnopqrstuvwxyz"

\* the rank of the byte of a character, for the comparison of strings
CharCode(c) == Index(ByteOrder, c)

\* a < b for Go strings
RECURSIVE StringLess(_, _)
StringLess(a, b) ==
    IF Len(b) = 0 THEN FALSE
    ELSE IF Len(a) = 0 THEN TRUE
    ELSE IF SubSeq(a, 1, 1) # SubSeq(b, 1, 1)
    THEN CharCode(SubSeq(a, 1, 1)) < CharCode(SubSeq(b, 1, 1))
    ELSE StringLess(SubSeq(a, 2, Len(a)), SubSeq(b, 2, Len(b)))

\* sort.Strings(keys) for a set of keys
RECURSIVE SortStrings(_)
SortStrings(keys) ==
    IF keys = {} THEN <<>>
    ELSE LET least == CHOOSE k \in keys : \A o \in keys \ {k} : StringLess(k, o)
         IN <<least>> \o SortStrings(keys \ {least})

\* the lines of a file, one after the other
RECURSIVE JoinLines(_, _)
JoinLines(lines, k) ==
    IF k > Len(lines) THEN "" ELSE lines[k] \o JoinLines(lines, k + 1)

\* the first parameter with an ID
FirstWithID(params, id) ==
    params[CHOOSE k \in 1..Len(params) :
              /\ params[k].ID = id
              /\ \A n \in 1..(k - 1) : params[n].ID # id]

\* writePropertiesFile: the parameters sorted by ID, a line
\* "<id>=<escaped value>" for each
writePropertiesFile(params) ==
    LET keys == SortStrings({params[k].ID : k \in 1..Len(params)})
    IN JoinLines([n \in 1..Len(keys) |->
                     keys[n] \o "=" \o escapePropertyValue(FirstWithID(params, keys[n]).Value)
                     \o "\n"], 1)

\* existing[key] after the loop over the lines: the last line of the key
ExistingRaw(pairs, key) ==
    pairs[CHOOSE k \in 1..Len(pairs) :
             /\ pairs[k].key = key
             /\ \A n \in (k + 1)..Len(pairs) : pairs[n].key # key].raw

\* a variant in which an incoming parameter replaces the line of its key
MergedRawOverwriting(pairs, newParams, key) ==
    IF \E k \in 1..Len(newParams) : newParams[k].ID = key
    THEN escapePropertyValue(FirstWithID(newParams, key).Value)
    ELSE ExistingRaw(pairs, key)

\* lines 262-267: the value the merged file holds for a key
MergedRaw(pairs, newParams, key) ==
    IF \E k \in 1..Len(pairs) : pairs[k].key = key
    THEN ExistingRaw(pairs, key)
    ELSE escapePropertyValue(FirstWithID(newParams, key).Value)

\* mergePropertiesFile: the new content of the file and addedCount
mergePropertiesFile(content, newParams) ==
    LET pairs == ParseLines(SplitLines(content, ""), 1)
        old == {pairs[k].key : k \in 1..Len(pairs)}
        new == {newParams[k].ID : k \in 1..Len(newParams)}
        keys == SortStrings(old \cup new)
    IN [content |-> JoinLines([n \in 1..Len(keys) |->
                                  keys[n] \o "=" \o MergedRaw(pairs, newParams, keys[n])
                                  \o "\n"], 1),
        addedCount |-> Cardinality(new \ old)]

\* WriteStringParameters: the file afterwards, and the count the merge logs
WriteStringParameters(file, params, replace) ==
    IF replace \/ ~file.exists
    THEN [exists |-> TRUE, content |-> writePropertiesFile(params), addedCount |-> 0]
    ELSE [exists |-> TRUE,
          content |-> mergePropertiesFile(file.content, params).content,
          addedCount |-> mergePropertiesFile(file.content, params).addedCount]

\* readPropertiesFile
readPropertiesFile(content, pid) ==
    LET pairs == ParseLines(SplitLines(content, ""), 1)
    IN [k \in 1..Len(pairs) |->
           StringParameter(pid, pairs[k].key, unescapePropertyValue(pairs[k].raw))]

\* ReadStringParameters
ReadStringParameters(file, pid) ==
    IF ~file.exists THEN <<>> ELSE readPropertiesFile(file.content, pid)

\* a snapshot and a read of the String.properties of one partner
propsFrame ==
    UNCHANGED <<opts, configFiles, merged, tmp, stats, work, ci, pi, ai,
                deploymentTasks, todo, packageTasks, wpc, werr, semaphore,
                resultChan, faults, obs, result>>

WriteStep ==
    /\ pc = "props_start"
    /\ pd' = [pd EXCEPT !.file = WriteStringParameters(pd.file0, pd.params, opts.replace)]
    /\ pc' = "props_written"
    /\ propsFrame

ReadStep ==
    /\ pc = "props_written"
    /\ pd' = [pd EXCEPT !.read = ReadStringParameters(pd.file, pd.pid)]
    /\ pc' = "props_read"
    /\ propsFrame

\* the values: every string of at most MaxLen characters of the alphabet
PropsAlphabet == {"\\", "n", "r", "\n", "\r", " ", "v"}

RECURSIVE StringsUpTo(_, _)
StringsUpTo(alphabet, n) ==
    IF n = 0 THEN {""}
    ELSE LET shorter == StringsUpTo(alphabet, n - 1)
         IN shorter \cup {c \o w : c \in alphabet, w \in shorter}

\* the parameters of a run: IDs a and b, each absent ("-") or with a value
PropsParams(va, vb, swap) ==
    LET a == IF va = "-" THEN <<>> ELSE <<StringParameter("P", "a", va)>>
        b == IF vb = "-" THEN <<>> ELSE <<StringParameter("P", "b", vb)>>
    IN IF swap THEN b \o a ELSE a \o b

\* the String.properties before the run: none, or one with a comment, an
\* empty line and lines of the keys b and c
PropsFiles ==
    {[exists |-> FALSE, content |-> ""],
     [exists |-> TRUE, content |-> ""],
     [exists |-> TRUE, content |-> "b=B\n"],
     [exists |-> TRUE, content |-> "# c\n\nc=\\\\n\nb=B \n"]}

InitProps ==
    /\ \E replace \in BOOLEAN : opts = [replace |-> replace, faultBudget |-> 0]
    /\ \E va \in StringsUpTo(PropsAlphabet, MaxLen) \cup {"-"}, vb \in {"-", "v"},
          swap \in BOOLEAN, file \in PropsFiles :
         /\ swap => (va # "-" /\ vb # "-")
         /\ pd = [pid |-> "P", params |-> PropsParams(va, vb, swap),
                  file0 |-> file, file |-> file, read |-> <<>>]
    /\ pc = "props_start" /\ result = ""
    /\ configFiles = <<>>
    /\ tmp = NoTmp /\ merged = NoMerge
    /\ stats = NewStats
    /\ work = <<>> /\ ci = 1 /\ pi = 1 /\ ai = 1
    /\ deploymentTasks = <<>>
    /\ todo = {} /\ packageTasks = <<>> /\ wpc = <<>> /\ werr = <<>>
    /\ semaphore = 0 /\ resultChan = <<>>
    /\ faults = 0 /\ obs = NewObs

NextProps ==
    \/ WriteStep
    \/ ReadStep

SpecProps == InitProps /\ [][NextProps]_vars

\* escapePropertyValue followed by unescapePropertyValue on one value
EscapeStep ==
    /\ pc = "escape"
    /\ pd' = [pd EXCEPT !.escaped = escapePropertyValue(pd.value)]
    /\ pc' = "unescape"
    /\ propsFrame

UnescapeStep ==
    /\ pc = "unescape"
    /\ pd' = [pd EXCEPT !.unescaped = unescapePropertyValue(pd.escaped)]
    /\ pc' = "done"
    /\ propsFrame

InitEscape ==
    /\ opts = [faultBudget |-> 0]
    /\ \E value \in StringsUpTo(PropsAlphabet, MaxValueLen) :
         pd = [value |-> value, escaped |-> "", unescaped |-> ""]
    /\ pc = "escape" /\ result = ""
    /\ configFiles = <<>>
    /\ tmp = NoTmp /\ merged = NoMerge
    /\ stats = NewStats
    /\ work = <<>> /\ ci = 1 /\ pi = 1 /\ ai = 1
    /\ deploymentTasks = <<>>
    /\ todo = {} /\ packageTasks = <<>> /\ wpc = <<>> /\ werr = <<>>
    /\ semaphore = 0 /\ resultChan = <<>>
    /\ faults = 0 /\ obs = NewObs

NextEscape ==
    \/ EscapeStep
    \/ UnescapeStep

SpecEscape == InitEscape /\ [][NextEscape]_vars

(***************************************************************************)
(* The Binary directory of one partner: WriteBinaryParameters,             *)
(* saveBinaryParameterToFile, updateMetadataFile, ReadBinaryParameters.    *)
(* A directory is the function from the names of its files to their        *)
(* bytes, and the content of _metadata.json, a function from file names    *)
(* to content types.                                                       *)
(***************************************************************************)
Sextet(c) == Index(Base64Alphabet, c) - 1

\* base64.StdEncoding.DecodeString of a value that decodes: three bytes for
\* four characters, the bits after the last whole byte dropped
RECURSIVE DecodeBase64(_)
DecodeBase64(value) ==
    IF Len(value) < 4 THEN <<>>
    ELSE LET q(k) == Sextet(SubSeq(value, k, k))
             b1 == q(1) * 4 + (q(2) \div 16)
             b2 == (q(2) % 16) * 16 + (q(3) \div 4)
             b3 == (q(3) % 4) * 64 + q(4)
         IN (IF SubSeq(value, 3, 4) = "==" THEN <<b1>>
             ELSE IF SubSeq(value, 4, 4) = "=" THEN <<b1, b2>>
             ELSE <<b1, b2, b3>>)
            \o DecodeBase64(SubSeq(value, 5, Len(value)))

\* base64.StdEncoding.EncodeToString
RECURSIVE EncodeBase64(_)
EncodeBase64(data) ==
    LET c(n) == SubSeq(Base64Alphabet, n + 1, n + 1)
    IN IF Len(data) = 0 THEN ""
       ELSE IF Len(data) = 1
       THEN c(data[1] \div 4) \o c((data[1] % 4) * 16) \o "=="
       ELSE IF Len(data) = 2
       THEN c(data[1] \div 4) \o c((data[1] % 4) * 16 + (data[2] \div 16))
            \o c((data[2] % 16) * 4) \o "="
       ELSE c(data[1] \div 4) \o c((data[1] % 4) * 16 + (data[2] \div 16))
            \o c((data[2] % 16) * 4 + (data[3] \div 64)) \o c(data[3] % 64)
            \o EncodeBase64(SubSeq(data, 4, Len(data)))

\* a variant that looks for the file the parameter would be written to
ExistsByFileName(files, param) ==
    BinaryFileName(param.ID, param.ContentType) \in DOMAIN files

\* lines 105-108: exists := fileExists(filepath.Join(binaryDir, param.ID))
ExistsByID(files, param) == param.ID \in DOMAIN files

\* updateMetadataFile: an entry for the file if the content type has
\* parameters
UpdateMetadata(metadata, param) ==
    IF Contains(param.ContentType, ";")
    THEN (BinaryFileName(param.ID, param.ContentType) :> param.ContentType) @@ metadata
    ELSE metadata

\* WriteBinaryParameters on a directory, from the k-th parameter on
RECURSIVE WriteBinaryDir(_, _, _, _)
WriteBinaryDir(dir, params, replace, k) ==
    IF k > Len(params) THEN [dir EXCEPT !.err = FALSE]
    ELSE IF ~replace /\ ExistsByID(dir.files, params[k])
    THEN WriteBinaryDir(dir, params, replace, k + 1)
    ELSE IF ~DecodesBase64(params[k].Value) THEN [dir EXCEPT !.err = TRUE]
    ELSE WriteBinaryDir(
            [dir EXCEPT
               !.files = (BinaryFileName(params[k].ID, params[k].ContentType)
                             :> DecodeBase64(params[k].Value)) @@ @,
               !.metadata = UpdateMetadata(@, params[k])],
            params, replace, k + 1)

\* removeFileExtension: the name without filepath.Ext(name)
removeFileExtension(filename) ==
    IF LastIndex(filename, ".") > 0
    THEN SubSeq(filename, 1, LastIndex(filename, ".") - 1)
    ELSE filename

\* lines 195-203: the content type of a file, from the metadata or else
\* from the extension of its name
ReadContentType(metadata, name) ==
    IF name \in DOMAIN metadata /\ metadata[name] # "" THEN metadata[name]
    ELSE IF LastIndex(name, ".") = 0 \/ LastIndex(name, ".") = Len(name) THEN "bin"
    ELSE SubSeq(name, LastIndex(name, ".") + 1, Len(name))

\* ReadBinaryParameters: the loop over the entries of the directory in the
\* order of os.ReadDir, by file name; a second file of an ID is skipped
RECURSIVE ReadBinaryEntries(_, _, _, _, _)
ReadBinaryEntries(dir, pid, names, k, seenParams) ==
    IF k > Len(names) THEN <<>>
    ELSE LET paramID == removeFileExtension(names[k])
         IN IF paramID \in seenParams
            THEN ReadBinaryEntries(dir, pid, names, k + 1, seenParams)
            ELSE <<BinaryParameter(pid, paramID, EncodeBase64(dir.files[names[k]]),
                                   ReadContentType(dir.metadata, names[k]))>>
                 \o ReadBinaryEntries(dir, pid, names, k + 1, seenParams \cup {paramID})

ReadBinaryParameters(dir, pid) ==
    ReadBinaryEntries(dir, pid, SortStrings(DOMAIN dir.files), 1, {})

WriteBinaryStep ==
    /\ pc = "binary_start"
    /\ pd' = [pd EXCEPT !.dir = WriteBinaryDir(pd.dir0, pd.params, opts.replace, 1)]
    /\ pc' = "binary_written"
    /\ propsFrame

ReadBinaryStep ==
    /\ pc = "binary_written"
    /\ pd' = [pd EXCEPT !.read = ReadBinaryParameters(pd.dir, pd.pid)]
    /\ pc' = "binary_read"
    /\ propsFrame

\* the directory before the write
EmptyFunction == [x \in {} |-> x]

BinaryDirs ==
    {[files |-> EmptyFunction, metadata |-> EmptyFunction, err |-> FALSE],
     [files |-> ("b1.xml" :> <<1>>), metadata |-> EmptyFunction, err |-> FALSE],
     [files |-> ("b1.xml" :> <<1>>),
      metadata |-> ("b1.xml" :> "xml; encoding=UTF-16"), err |-> FALSE],
     [files |-> ("b1" :> <<1>>), metadata |-> EmptyFunction, err |-> FALSE]}

BinaryIDs == {"b1", "b1.xml", "B1.XML", "a.b"}

BinaryContentTypes ==
    {"xml", "XML", "json", "text/xml", "xml; encoding=UTF-8",
     "application/octet-stream", "application/json; charset=utf-8", "data"}

BinaryValues == {"ZA==", "ZGU=", "ZGVm"}

InitBinary ==
    /\ \E replace \in BOOLEAN : opts = [replace |-> replace, faultBudget |-> 0]
    /\ \E id \in BinaryIDs, value \in BinaryValues, contentType \in BinaryContentTypes,
          dir \in BinaryDirs :
         pd = [pid |-> "P", params |-> <<BinaryParameter("P", id, value, contentType)>>,
               dir0 |-> dir, dir |-> dir, read |-> <<>>]
    /\ pc = "binary_start" /\ result = ""
    /\ configFiles = <<>>
    /\ tmp = NoTmp /\ merged = NoMerge
    /\ stats = NewStats
    /\ work = <<>> /\ ci = 1 /\ pi = 1 /\ ai = 1
    /\ deploymentTasks = <<>>
    /\ todo = {} /\ packageTasks = <<>> /\ wpc = <<>> /\ werr = <<>>
    /\ semaphore = 0 /\ resultChan = <<>>
    /\ faults = 0 /\ obs = NewObs

NextBinary ==
    \/ WriteBinaryStep
    \/ ReadBinaryStep

SpecBinary == InitBinary /\ [][NextBinary]_vars

(***************************************************************************)
(* The batch client (internal/httpclnt/batch.go).                          *)
(***************************************************************************)
DefaultBatchSize == 90

\* one BatchOperation; ContentID names it, IsQuery selects its section
BatchOperation(contentID, isQuery) == [ContentID |-> contentID, IsQuery |-> isQuery]

IsQueryOp(op) == op.IsQuery

IsChangesetOp(op) == ~op.IsQuery

\* buildBatchBody separates the operations: queries first, one changeset after
queryOps(operations) == SelectSeq(operations, IsQueryOp)

changesetOps(operations) == SelectSeq(operations, IsChangesetOp)

\* the shapes a sub-response of the tenant can have: the Content-Type of the
\* part, whether its MIME header can be read, whether its first line is a
\* status line "HTTP/1.1 <code> <text>", and the code
PartShape(contentType, header, statusLine, statusCode) ==
    [ContentType |-> contentType, header |-> header,
     statusLine |-> statusLine, StatusCode |-> statusCode]

PartShapes ==
    {PartShape("application/http", TRUE, TRUE, 201),
     PartShape("application/http", TRUE, TRUE, 204),
     PartShape("application/http", TRUE, TRUE, 400),
     PartShape("application/http", TRUE, FALSE, 0),
     PartShape("text/plain", TRUE, TRUE, 204),
     PartShape("application/http", FALSE, TRUE, 204)}

WellFormed(shape) ==
    shape.ContentType = "application/http" /\ shape.header /\ shape.statusLine

\* the sub-response to one operation; op remembers which operation it answers
SubResponse(op, shape) ==
    [op |-> op.ContentID, ContentType |-> shape.ContentType, header |-> shape.header,
     statusLine |-> shape.statusLine, StatusCode |-> shape.StatusCode]

\* the body the tenant answers with: one sub-response per operation, in the
\* order of the request body
ResponseParts(operations, shapes) ==
    LET tagged == [j \in 1..Len(operations) |->
                     [op |-> operations[j], shape |-> shapes[j]]]
        IsQ(t) == t.op.IsQuery
        IsC(t) == ~t.op.IsQuery
        q == SelectSeq(tagged, IsQ)
        c == SelectSeq(tagged, IsC)
    IN [j \in 1..Len(q) |-> SubResponse(q[j].op, q[j].shape)]
       \o (IF c = <<>> THEN <<>>
           ELSE <<[ContentType |-> "multipart/mixed", header |-> TRUE,
                   parts |-> [j \in 1..Len(c) |-> SubResponse(c[j].op, c[j].shape)]]>>)

\* parseOperationResponseFromPart: the status line decides
parseOperationResponseFromPart(part) ==
    IF part.statusLine
    THEN [ContentID |-> part.op, StatusCode |-> part.StatusCode, Error |-> FALSE,
          op |-> part.op]
    ELSE [ContentID |-> 0, StatusCode |-> 0, Error |-> TRUE, op |-> part.op]

\* parseChangeset: every part is parsed whatever its Content-Type; a part
\* whose header NextPart cannot read ends the call with an error
RECURSIVE parseChangeset(_, _, _)
parseChangeset(parts, k, operations) ==
    IF k > Len(parts) THEN [Operations |-> operations, err |-> FALSE]
    ELSE IF ~parts[k].header THEN [Operations |-> <<>>, err |-> TRUE]
    ELSE parseChangeset(parts, k + 1,
                        Append(operations, parseOperationResponseFromPart(parts[k])))

\* the variant that records a part it cannot use instead of leaving it out
RECURSIVE parseBatchResponseKeeping(_, _, _)
parseBatchResponseKeeping(parts, k, operations) ==
    IF k > Len(parts) THEN [Operations |-> operations, err |-> FALSE]
    ELSE IF parts[k].ContentType = "multipart/mixed"
    THEN LET changeset == parseChangeset(
                 [j \in 1..Len(parts[k].parts) |->
                    [parts[k].parts[j] EXCEPT !.header = TRUE,
                                              !.statusLine = @ /\ parts[k].parts[j].header]],
                 1, <<>>)
         IN parseBatchResponseKeeping(parts, k + 1, operations \o changeset.Operations)
    ELSE parseBatchResponseKeeping(parts, k + 1,
             Append(operations,
                    parseOperationResponseFromPart(
                        [parts[k] EXCEPT !.statusLine =
                            @ /\ parts[k].header
                              /\ parts[k].ContentType = "application/http"])))

\* parseBatchResponse: a changeset part adds its operations, an
\* application/http part adds one, a part of another type adds nothing
RECURSIVE parseBatchResponse(_, _, _)
parseBatchResponse(parts, k, operations) ==
    IF k > Len(parts) THEN [Operations |-> operations, err |-> FALSE]
    ELSE IF ~parts[k].header THEN [Operations |-> <<>>, err |-> TRUE]
    ELSE IF parts[k].ContentType = "multipart/mixed"
    THEN LET changeset == parseChangeset(parts[k].parts, 1, <<>>)
         IN IF changeset.err THEN [Operations |-> <<>>, err |-> TRUE]
            ELSE parseBatchResponse(parts, k + 1, operations \o changeset.Operations)
    ELSE IF parts[k].ContentType = "application/http"
    THEN parseBatchResponse(parts, k + 1,
                            Append(operations, parseOperationResponseFromPart(parts[k])))
    ELSE parseBatchResponse(parts, k + 1, operations)

\* Execute: no operations, no request; a status other than 202 and 200 fails
Execute(operations, statusCode, parts) ==
    IF Len(operations) = 0 THEN [Operations |-> <<>>, err |-> FALSE]
    ELSE IF statusCode # 202 /\ statusCode # 200 THEN [Operations |-> <<>>, err |-> TRUE]
    ELSE parseBatchResponse(parts, 1, <<>>)

\* the variant of the loop's step that always moves on by DefaultBatchSize
StepByDefault(i, batchSize, n) == IF i + DefaultBatchSize > n THEN n ELSE i + DefaultBatchSize

\* the end of the group that starts at i (0-based, exclusive end)
BatchEnd(i, batchSize, n) == IF i + batchSize > n THEN n ELSE i + batchSize

\* ExecuteInBatches: a batchSize of 0 or less means DefaultBatchSize
EIBStart ==
    /\ pc = "batch_start"
    /\ pd' = [pd EXCEPT !.batchSize = IF @ <= 0 THEN DefaultBatchSize ELSE @, !.i = 0]
    /\ pc' = "batch_loop"
    /\ propsFrame

\* NewBatchRequest and Execute for allOps[i:end], the tenant answering
EIBExecute ==
    /\ pc = "batch_loop"
    /\ pd.i < Len(pd.operations)
    /\ LET end == BatchEnd(pd.i, pd.batchSize, Len(pd.operations))
           operations == SubSeq(pd.operations, pd.i + 1, end)
           batch == [operations |-> operations, first |-> pd.i,
                     boundary |-> pd.boundaryCounter + 1,
                     changesetBoundary |-> pd.boundaryCounter + 2]
       IN \E shapes \in [1..Len(operations) -> PartShapes] :
            LET resp == Execute(operations, 202, ResponseParts(operations, shapes))
            IN /\ pd' = [pd EXCEPT
                           !.boundaryCounter = @ + 2,
                           !.batches = Append(@, batch),
                           !.shapes = @ \o shapes,
                           !.allResponses = IF resp.err THEN @ ELSE @ \o resp.Operations,
                           !.i = IF resp.err THEN @ ELSE end,
                           !.ret = IF resp.err
                                   THEN [done |-> TRUE, Operations |-> <<>>, err |-> TRUE]
                                   ELSE @]
               /\ pc' = IF resp.err THEN "batch_done" ELSE "batch_loop"
    /\ propsFrame

\* the request fails or the tenant answers with a status that is not accepted
EIBExecuteFails ==
    /\ pc = "batch_loop"
    /\ pd.i < Len(pd.operations)
    /\ LET end == BatchEnd(pd.i, pd.batchSize, Len(pd.operations))
           operations == SubSeq(pd.operations, pd.i + 1, end)
           batch == [operations |-> operations, first |-> pd.i,
                     boundary |-> pd.boundaryCounter + 1,
                     changesetBoundary |-> pd.boundaryCounter + 2]
           resp == Execute(operations, 500, <<>>)
       IN /\ resp.err
          /\ pd' = [pd EXCEPT
                      !.boundaryCounter = @ + 2,
                      !.batches = Append(@, batch),
                      !.failed = TRUE,
                      !.ret = [done |-> TRUE, Operations |-> <<>>, err |-> TRUE]]
    /\ pc' = "batch_done"
    /\ propsFrame

EIBReturn ==
    /\ pc = "batch_loop"
    /\ pd.i >= Len(pd.operations)
    /\ pd' = [pd EXCEPT !.ret = [done |-> TRUE, Operations |-> pd.allResponses,
                                 err |-> FALSE]]
    /\ pc' = "batch_done"
    /\ propsFrame

InitBatch ==
    /\ opts = [replace |-> FALSE, faultBudget |-> 0]
    /\ \E n \in 0..MaxOps, batchSize \in (-1)..MaxBatchSize :
         \E isQuery \in [1..n -> BOOLEAN] :
           pd = [operations |-> [j \in 1..n |-> BatchOperation(j, isQuery[j])],
                 batchSize |-> batchSize, batchSize0 |-> batchSize,
                 i |-> 0, boundaryCounter |-> 0, batches |-> <<>>, shapes |-> <<>>,
                 allResponses |-> <<>>, failed |-> FALSE,
                 ret |-> [done |-> FALSE, Operations |-> <<>>, err |-> FALSE]]
    /\ pc = "batch_start" /\ result = ""
    /\ configFiles = <<>>
    /\ tmp = NoTmp /\ merged = NoMerge
    /\ stats = NewStats
    /\ work = <<>> /\ ci = 1 /\ pi = 1 /\ ai = 1
    /\ deploymentTasks = <<>>
    /\ todo = {} /\ packageTasks = <<>> /\ wpc = <<>> /\ werr = <<>>
    /\ semaphore = 0 /\ resultChan = <<>>
    /\ faults = 0 /\ obs = NewObs

NextBatch ==
    \/ EIBStart
    \/ EIBExecute
    \/ EIBExecuteFails
    \/ EIBReturn

SpecBatch == InitBatch /\ [][NextBatch]_vars

(***************************************************************************)
(* generateBoundary called from concurrent NewBatchRequest calls.  The     *)
(* counter is a plain package-level int: boundaryCounter++ is a read and a  *)
(* write, and Sprintf reads the counter again.                              *)
(***************************************************************************)
\* one goroutine inside NewBatchRequest: the values its generateBoundary
\* calls have returned, the step the running call is at, the value it read
NewCaller == [values |-> <<>>, at |-> "load", reg |-> 0]

InGenerateBoundary(g) == pc = "boundaries" /\ Len(pd.callers[g].values) < 2

\* boundaryCounter++ : the read
GBLoad(g) ==
    /\ InGenerateBoundary(g)
    /\ pd.callers[g].at = "load"
    /\ pd' = [pd EXCEPT !.callers[g].reg = pd.boundaryCounter,
                        !.callers[g].at = "store"]
    /\ UNCHANGED pc
    /\ propsFrame

\* boundaryCounter++ : the write
GBStore(g) ==
    /\ InGenerateBoundary(g)
    /\ pd.callers[g].at = "store"
    /\ pd' = [pd EXCEPT !.boundaryCounter = pd.callers[g].reg + 1,
                        !.callers[g].at = "format"]
    /\ UNCHANGED pc
    /\ propsFrame

\* fmt.Sprintf("%s%d", prefix, boundaryCounter): the counter is read again
GBFormat(g) ==
    /\ InGenerateBoundary(g)
    /\ pd.callers[g].at = "format"
    /\ pd' = [pd EXCEPT !.callers[g].values = Append(@, pd.boundaryCounter),
                        !.callers[g].at = "load"]
    /\ UNCHANGED pc
    /\ propsFrame

InitBoundary ==
    /\ opts = [replace |-> FALSE, faultBudget |-> 0]
    /\ \E n \in 1..MaxCallers, start \in 0..MaxOps :
         pd = [boundaryCounter |-> start, callers |-> [g \in 1..n |-> NewCaller]]
    /\ pc = "boundaries" /\ result = ""
    /\ configFiles = <<>>
    /\ tmp = NoTmp /\ merged = NoMerge
    /\ stats = NewStats
    /\ work = <<>> /\ ci = 1 /\ pi = 1 /\ ai = 1
    /\ deploymentTasks = <<>>
    /\ todo = {} /\ packageTasks = <<>> /\ wpc = <<>> /\ werr = <<>>
    /\ semaphore = 0 /\ resultChan = <<>>
    /\ faults = 0 /\ obs = NewObs

NextBoundary ==
    \/ \E g \in DOMAIN pd.callers : GBLoad(g)
    \/ \E g \in DOMAIN pd.callers : GBStore(g)
    \/ \E g \in DOMAIN pd.callers : GBFormat(g)

SpecBoundary == InitBoundary /\ [][NextBoundary]_vars

(***************************************************************************)
(* MANIFEST.MF and parameters.prop (internal/deploy/utils.go).             *)
(***************************************************************************)
HasPrefix(s, prefix) == Len(s) >= Len(prefix) /\ SubSeq(s, 1, Len(prefix)) = prefix

\* strings.Split for a separator that is not empty
RECURSIVE Split(_, _, _)
Split(s, sep, elem) ==
    IF Len(s) = 0 THEN <<elem>>
    ELSE IF HasPrefix(s, sep)
    THEN <<elem>> \o Split(SubSeq(s, Len(sep) + 1, Len(s)), sep, "")
    ELSE Split(SubSeq(s, 2, Len(s)), sep, elem \o SubSeq(s, 1, 1))

\* strings.Join
RECURSIVE Join(_, _)
Join(elems, sep) ==
    IF Len(elems) = 0 THEN ""
    ELSE IF Len(elems) = 1 THEN elems[1]
    ELSE elems[1] \o sep \o Join(Tail(elems), sep)

\* the line ending both functions detect: CRLF as soon as the file holds one
DetectLineEnding(content) == IF Contains(content, "\r\n") THEN "\r\n" ELSE "\n"

\* the variant that takes the lines apart at every LF and drops the CR before it
RECURSIVE StripCR(_)
StripCR(lines) ==
    IF Len(lines) = 0 THEN <<>>
    ELSE <<IF HasSuffix(lines[1], "\r")
           THEN SubSeq(lines[1], 1, Len(lines[1]) - 1) ELSE lines[1]>>
         \o StripCR(Tail(lines))

SplitAtAnyEnding(content, lineEnding) ==
    LET lines == StripCR(Split(content, "\n", ""))
    IN IF Len(lines) > 1 /\ lines[Len(lines)] = ""
       THEN SubSeq(lines, 1, Len(lines) - 1) ELSE lines

\* lines := strings.Split(content, lineEnding)
SplitContent(content, lineEnding) == Split(content, lineEnding, "")

IsBundleName(line) == HasPrefix(ToLower(TrimSpace(line)), "bundle-name:")

IsBundleSymbolicName(line) == HasPrefix(ToLower(TrimSpace(line)), "bundle-symbolicname:")

\* the loop over the lines: the two headers are rewritten, the rest is kept
RewriteLines(lines, bundleSymbolicName, bundleName) ==
    [k \in 1..Len(lines) |->
        IF IsBundleName(lines[k]) THEN "Bundle-Name: " \o bundleName
        ELSE IF IsBundleSymbolicName(lines[k])
        THEN "Bundle-SymbolicName: " \o bundleSymbolicName
        ELSE lines[k]]

\* the content UpdateManifestBundleName writes for the content it read
UpdateManifestBundleName(content, bundleSymbolicName, bundleName) ==
    LET lineEnding == DetectLineEnding(content)
        lines == SplitContent(content, lineEnding)
        bundleNameFound == \E k \in 1..Len(lines) : IsBundleName(lines[k])
        bundleSymbolicNameFound ==
            \E k \in 1..Len(lines) :
                ~IsBundleName(lines[k]) /\ IsBundleSymbolicName(lines[k])
        rewritten == RewriteLines(lines, bundleSymbolicName, bundleName)
                    \o (IF bundleNameFound THEN <<>>
                        ELSE <<"Bundle-Name: " \o bundleName>>)
                    \o (IF bundleSymbolicNameFound THEN <<>>
                        ELSE <<"Bundle-SymbolicName: " \o bundleSymbolicName>>)
        finalContent == Join(rewritten, lineEnding)
    IN IF HasSuffix(finalContent, lineEnding) THEN finalContent
       ELSE finalContent \o lineEnding

\* the manifest is read, rewritten and written to outputPath
ManifestUpdate ==
    /\ pc = "manifest_start"
    /\ pd' = [pd EXCEPT !.output = UpdateManifestBundleName(pd.content, "S", "N"),
                        !.written = TRUE]
    /\ pc' = "manifest_done"
    /\ propsFrame

\* os.ReadFile, os.MkdirAll or os.WriteFile fails: the error is returned
ManifestFails ==
    /\ pc = "manifest_start"
    /\ pd' = [pd EXCEPT !.err = TRUE]
    /\ pc' = "manifest_done"
    /\ propsFrame

\* the lines a manifest is made of
ManifestLines ==
    {"M: 1", "Bundle-Name: o", "BUNDLE-NAME:o", "Bundle-SymbolicName: o", " c"}

\* the file with the given lines and the given ending after each of them
RECURSIVE FileOf(_, _)
FileOf(lines, endings) ==
    IF Len(lines) = 0 THEN ""
    ELSE lines[1] \o endings[1] \o FileOf(Tail(lines), Tail(endings))

InitManifest ==
    /\ opts = [replace |-> FALSE, faultBudget |-> 0]
    /\ \E n \in 1..MaxLines :
         \E lines \in [1..n -> ManifestLines], endings \in [1..n -> {"\n", "\r\n", ""}] :
           /\ \A k \in 1..(n - 1) : endings[k] # ""
           /\ pd = [lines |-> lines, content |-> FileOf(lines, endings),
                    output |-> "", written |-> FALSE, err |-> FALSE]
    /\ pc = "manifest_start" /\ result = ""
    /\ configFiles = <<>>
    /\ tmp = NoTmp /\ merged = NoMerge
    /\ stats = NewStats
    /\ work = <<>> /\ ci = 1 /\ pi = 1 /\ ai = 1
    /\ deploymentTasks = <<>>
    /\ todo = {} /\ packageTasks = <<>> /\ wpc = <<>> /\ werr = <<>>
    /\ semaphore = 0 /\ resultChan = <<>>
    /\ faults = 0 /\ obs = NewObs

NextManifest ==
    \/ ManifestUpdate
    \/ ManifestFails

SpecManifest == InitManifest /\ [][NextManifest]_vars

\* parameters.prop -----------------------------------------------------------
\* the variant that notes a key of the file the first time only
RECURSIVE ParseParameterLinesOnce(_, _, _, _)
ParseParameterLinesOnce(lines, k, params, paramKeys) ==
    IF k > Len(lines) THEN [params |-> params, paramKeys |-> paramKeys]
    ELSE LET trimmed == TrimSpace(lines[k])
             eq == Index(trimmed, "=")
             key == TrimSpace(SubSeq(trimmed, 1, eq - 1))
             value == TrimSpace(SubSeq(trimmed, eq + 1, Len(trimmed)))
         IN IF trimmed = "" \/ HasPrefix(trimmed, "#") \/ eq = 0
            THEN ParseParameterLinesOnce(lines, k + 1, params, paramKeys)
            ELSE ParseParameterLinesOnce(lines, k + 1, (key :> value) @@ params,
                     IF key \in DOMAIN params THEN paramKeys
                     ELSE Append(paramKeys, key))

\* the loop over the lines of parameters.prop: comments, empty lines and
\* lines without "=" are passed over, the others set params[key] and add the
\* key to paramKeys
RECURSIVE ParseParameterLines(_, _, _, _)
ParseParameterLines(lines, k, params, paramKeys) ==
    IF k > Len(lines) THEN [params |-> params, paramKeys |-> paramKeys]
    ELSE LET trimmed == TrimSpace(lines[k])
             eq == Index(trimmed, "=")
             key == TrimSpace(SubSeq(trimmed, 1, eq - 1))
             value == TrimSpace(SubSeq(trimmed, eq + 1, Len(trimmed)))
         IN IF trimmed = "" \/ HasPrefix(trimmed, "#") \/ eq = 0
            THEN ParseParameterLines(lines, k + 1, params, paramKeys)
            ELSE ParseParameterLines(lines, k + 1, (key :> value) @@ params,
                                     Append(paramKeys, key))

\* one pass of the loop over the overrides
ApplyOverride(parsed, overrides, key) ==
    [params |-> (key :> overrides[key]) @@ parsed.params,
     paramKeys |-> IF key \in DOMAIN parsed.params THEN parsed.paramKeys
                   ELSE Append(parsed.paramKeys, key)]

\* the loop over the overrides, in the order the map is ranged over
RECURSIVE ApplyOverrides(_, _, _, _)
ApplyOverrides(parsed, overrides, order, k) ==
    IF k > Len(order) THEN parsed
    ELSE ApplyOverrides(ApplyOverride(parsed, overrides, order[k]), overrides, order, k + 1)

\* the content MergeParametersFile writes; exists tells whether paramsPath is
\* there, order is the order the overrides map is ranged over
MergeParametersFile(exists, content, overrides, order) ==
    LET lineEnding == IF exists THEN DetectLineEnding(content) ELSE "\n"
        parsed == IF exists
                  THEN ParseParameterLines(SplitContent(content, lineEnding), 1,
                                           EmptyFunction, <<>>)
                  ELSE [params |-> EmptyFunction, paramKeys |-> <<>>]
        applied == ApplyOverrides(parsed, overrides, order, 1)
        lines == [k \in 1..Len(applied.paramKeys) |->
                    applied.paramKeys[k] \o "=" \o applied.params[applied.paramKeys[k]]]
        finalContent == Join(lines, lineEnding)
    IN IF HasSuffix(finalContent, lineEnding) THEN finalContent
       ELSE finalContent \o lineEnding

\* the orders a map with the given keys can be ranged over
Orders(keys) ==
    {order \in [1..Cardinality(keys) -> keys] :
        \A j, k \in 1..Cardinality(keys) : j # k => order[j] # order[k]}

ParametersMerge ==
    /\ pc = "params_start"
    /\ \E order \in Orders(DOMAIN pd.overrides) :
         pd' = [pd EXCEPT !.output = MergeParametersFile(pd.exists, pd.content,
                                                         pd.overrides, order),
                          !.written = TRUE]
    /\ pc' = "params_done"
    /\ propsFrame

\* os.ReadFile, os.MkdirAll or os.WriteFile fails: the error is returned
ParametersFails ==
    /\ pc = "params_start"
    /\ pd' = [pd EXCEPT !.err = TRUE]
    /\ pc' = "params_done"
    /\ propsFrame

ParameterLines == {"a=1", "b=2", "a=3", "# c", " b = 2"}

AllOverrides == ("a" :> "9") @@ ("c" :> "8") @@ ("d" :> "7")

InitParameters ==
    /\ opts = [replace |-> FALSE, faultBudget |-> 0]
    /\ \E n \in 0..MaxLines, keys \in SUBSET (DOMAIN AllOverrides) :
         \E lines \in [1..n -> ParameterLines], endings \in [1..n -> {"\n", "\r\n", ""}] :
           /\ \A k \in 1..(n - 1) : endings[k] # ""
           /\ Cardinality(keys) <= MaxLines - 1
           /\ pd = [exists |-> n > 0, lines |-> lines, content |-> FileOf(lines, endings),
                    overrides |-> [key \in keys |-> AllOverrides[key]],
                    output |-> "", written |-> FALSE, err |-> FALSE]
    /\ pc = "params_start" /\ result = ""
    /\ configFiles = <<>>
    /\ tmp = NoTmp /\ merged = NoMerge
    /\ stats = NewStats
    /\ work = <<>> /\ ci = 1 /\ pi = 1 /\ ai = 1
    /\ deploymentTasks = <<>>
    /\ todo = {} /\ packageTasks = <<>> /\ wpc = <<>> /\ werr = <<>>
    /\ semaphore = 0 /\ resultChan = <<>>
    /\ faults = 0 /\ obs = NewObs

NextParameters ==
    \/ ParametersMerge
    \/ ParametersFails

SpecParameters == InitParameters /\ [][NextParameters]_vars

(***************************************************************************)
(* The artifact type on its way to the updater and to the deployer.        *)
(***************************************************************************)
\* the table of the switch, applied to a string that is already prepared
ArtifactTypeTable(lowered) ==
    CASE lowered \in {"integrationflow", "integration flow", "iflow"} -> "Integration"
      [] lowered \in {"valuemapping", "value mapping"} -> "ValueMapping"
      [] lowered \in {"messagemapping", "message mapping"} -> "MessageMapping"
      [] lowered \in {"scriptcollection", "script collection"} -> "ScriptCollection"
      [] OTHER -> "Integration"

\* the variant that also trims
mapArtifactTypeTrimmed(artifactType) == ArtifactTypeTable(ToLower(TrimSpace(artifactType)))

\* mapArtifactTypeForSync: switch strings.ToLower(artifactType)
mapArtifactTypeForSync(artifactType) == ArtifactTypeTable(ToLower(artifactType))

\* processing of the artifact: the type handed to the updater
TypeUpdate ==
    /\ pc = "type_start"
    /\ pd' = [pd EXCEPT !.updateType = mapArtifactTypeForSync(pd.Type)]
    /\ pc' = "type_updated"
    /\ propsFrame

\* collectDeploymentTasks: an empty type becomes IntegrationFlow
TypeCollect ==
    /\ pc = "type_updated"
    /\ pd' = [pd EXCEPT !.ArtifactType = IF pd.Type = "" THEN "IntegrationFlow" ELSE pd.Type]
    /\ pc' = "type_collected"
    /\ propsFrame

\* the deploy worker: the type handed to deployArtifacts
TypeDeploy ==
    /\ pc = "type_collected"
    /\ pd' = [pd EXCEPT !.deployType = mapArtifactTypeForSync(pd.ArtifactType)]
    /\ pc' = "type_deployed"
    /\ propsFrame

\* the spellings of the type in a manifest
ArtifactTypeNames ==
    {"integrationflow", "IntegrationFlow", "INTEGRATIONFLOW", "integration flow",
     "Integration Flow", "iflow", "IFlow", "valuemapping", "ValueMapping",
     "value mapping", "Value Mapping", "messagemapping", "MessageMapping",
     "message mapping", "Message Mapping", "scriptcollection", "ScriptCollection",
     "script collection", "Script Collection", "", "groovy", "Other"}

InitType ==
    /\ opts = [replace |-> FALSE, faultBudget |-> 0]
    /\ \E name \in ArtifactTypeNames, before \in {"", " ", "\t"}, after \in {"", " ", "\n"} :
         pd = [Type |-> before \o name \o after, updateType |-> "",
               ArtifactType |-> "", deployType |-> ""]
    /\ pc = "type_start" /\ result = ""
    /\ configFiles = <<>>
    /\ tmp = NoTmp /\ merged = NoMerge
    /\ stats = NewStats
    /\ work = <<>> /\ ci = 1 /\ pi = 1 /\ ai = 1
    /\ deploymentTasks = <<>>
    /\ todo = {} /\ packageTasks = <<>> /\ wpc = <<>> /\ werr = <<>>
    /\ semaphore = 0 /\ resultChan = <<>>
    /\ faults = 0 /\ obs = NewObs

NextType ==
    \/ TypeUpdate
    \/ TypeCollect
    \/ TypeDeploy

SpecType == InitType /\ [][NextType]_vars

(***************************************************************************)
(* BatchSyncStringParameters and BatchSyncBinaryParameters.                *)
(***************************************************************************)
\* what GetStringParameter / GetBinaryParameter can return for a parameter
Probe(err, found, value, contentType) ==
    [err |-> err, found |-> found, Value |-> value, ContentType |-> contentType]

\* the test that makes an update operation
BatchDiffers(kind, existing, param) ==
    IF kind = "string" THEN existing.Value # param.Value
    ELSE existing.Value # param.Value \/ existing.ContentType # param.ContentType

\* the probe loop over batchParams from position idx on: a failed probe goes
\* to Errors, an equal parameter to Unchanged, the others add an operation
\* with the content id idx
RECURSIVE ProbeLoop(_, _, _, _, _, _)
ProbeLoop(kind, batchParams, probes, idx, results, operations) ==
    IF idx > Len(batchParams) THEN [results |-> results, operations |-> operations]
    ELSE LET param == batchParams[idx]
             key == ParamKey(param.Pid, param.ID)
             existing == probes[idx]
         IN IF existing.err
            THEN ProbeLoop(kind, batchParams, probes, idx + 1,
                           AddError(results, key, "probe"), operations)
            ELSE IF ~existing.found \/ BatchDiffers(kind, existing, param)
            THEN ProbeLoop(kind, batchParams, probes, idx + 1, results,
                           Append(operations, BatchOperation(idx, FALSE)))
            ELSE ProbeLoop(kind, batchParams, probes, idx + 1,
                           [results EXCEPT !.Unchanged = Append(@, key)], operations)

\* one response sorted into the lists under a key
Classify(results, key, opResp) ==
    IF opResp.Error THEN AddError(results, key, "response")
    ELSE IF opResp.StatusCode >= 200 /\ opResp.StatusCode < 300
    THEN (IF opResp.StatusCode = 201
          THEN [results EXCEPT !.Created = Append(@, key)]
          ELSE [results EXCEPT !.Updated = Append(@, key)])
    ELSE AddError(results, key, "status")

\* the variant that finds the parameter of a response by its content id
RECURSIVE ProcessResponsesByContentID(_, _, _, _)
ProcessResponsesByContentID(batchParams, responses, idx, results) ==
    IF idx > Len(responses) \/ idx > Len(batchParams) THEN results
    ELSE LET param == batchParams[responses[idx].op]
         IN ProcessResponsesByContentID(batchParams, responses, idx + 1,
                Classify(results, ParamKey(param.Pid, param.ID), responses[idx]))

\* the loop over resp.Operations: the response at idx is taken for
\* batchParams[idx]
RECURSIVE ProcessResponses(_, _, _, _)
ProcessResponses(batchParams, responses, idx, results) ==
    IF idx > Len(responses) \/ idx > Len(batchParams) THEN results
    ELSE LET param == batchParams[idx]
         IN ProcessResponses(batchParams, responses, idx + 1,
                Classify(results, ParamKey(param.Pid, param.ID), responses[idx]))

SyncStart ==
    /\ pc = "sync_start"
    /\ pd' = [pd EXCEPT !.batchSize = IF @ <= 0 THEN DefaultBatchSize ELSE @, !.i = 0]
    /\ pc' = "sync_loop"
    /\ propsFrame

\* the statuses and status lines the tenant answers an operation with
SyncShapes == {shape \in PartShapes : shape.ContentType = "application/http" /\ shape.header}

\* one batch: the probes, the operations, Execute, the responses
SyncBatch ==
    /\ pc = "sync_loop"
    /\ pd.i < Len(pd.params)
    /\ LET end == BatchEnd(pd.i, pd.batchSize, Len(pd.params))
           batchParams == SubSeq(pd.params, pd.i + 1, end)
           probes == SubSeq(pd.probes, pd.i + 1, end)
           probed == ProbeLoop(pd.kind, batchParams, probes, 1, pd.results, <<>>)
           operations == probed.operations
       IN \E shapes \in [1..Len(operations) -> SyncShapes] :
            LET resp == Execute(operations, 202, ResponseParts(operations, shapes))
            IN /\ ~resp.err
               /\ pd' = [pd EXCEPT
                           !.results = ProcessResponses(batchParams, resp.Operations, 1,
                                                        probed.results),
                           !.answers = @ @@ [k \in {pd.i + operations[j].ContentID :
                                                      j \in 1..Len(operations)} |->
                                               shapes[CHOOSE j \in 1..Len(operations) :
                                                        pd.i + operations[j].ContentID = k]],
                           !.i = end]
    /\ UNCHANGED pc
    /\ propsFrame

\* Execute fails: BatchSync returns the error and no result
SyncBatchFails ==
    /\ pc = "sync_loop"
    /\ pd.i < Len(pd.params)
    /\ LET end == BatchEnd(pd.i, pd.batchSize, Len(pd.params))
           batchParams == SubSeq(pd.params, pd.i + 1, end)
           probes == SubSeq(pd.probes, pd.i + 1, end)
           probed == ProbeLoop(pd.kind, batchParams, probes, 1, pd.results, <<>>)
       IN /\ Execute(probed.operations, 500, <<>>).err
          /\ pd' = [pd EXCEPT !.results = NewBatchResult, !.err = TRUE]
    /\ pc' = "sync_done"
    /\ propsFrame

SyncReturn ==
    /\ pc = "sync_loop"
    /\ pd.i >= Len(pd.params)
    /\ pc' = "sync_done"
    /\ UNCHANGED pd
    /\ propsFrame

SyncIDs == <<"p1", "p2", "p3", "p4">>

SyncProbes ==
    {Probe(TRUE, FALSE, "", ""), Probe(FALSE, FALSE, "", ""),
     Probe(FALSE, TRUE, "v", "xml"), Probe(FALSE, TRUE, "w", "xml"),
     Probe(FALSE, TRUE, "v", "json")}

InitSync ==
    /\ opts = [replace |-> FALSE, faultBudget |-> 0]
    /\ \E n \in 0..MaxParams, kind \in {"string", "binary"},
          batchSize \in (-1)..MaxBatchSize :
         \E probes \in [1..n -> SyncProbes] :
           pd = [kind |-> kind,
                 params |-> [j \in 1..n |->
                               IF kind = "string" THEN StringParameter("P", SyncIDs[j], "v")
                               ELSE BinaryParameter("P", SyncIDs[j], "v", "xml")],
                 probes |-> probes, batchSize |-> batchSize, i |-> 0,
                 results |-> NewBatchResult, answers |-> EmptyFunction, err |-> FALSE]
    /\ pc = "sync_start" /\ result = ""
    /\ configFiles = <<>>
    /\ tmp = NoTmp /\ merged = NoMerge
    /\ stats = NewStats
    /\ work = <<>> /\ ci = 1 /\ pi = 1 /\ ai = 1
    /\ deploymentTasks = <<>>
    /\ todo = {} /\ packageTasks = <<>> /\ wpc = <<>> /\ werr = <<>>
    /\ semaphore = 0 /\ resultChan = <<>>
    /\ faults = 0 /\ obs = NewObs

NextSync ==
    \/ SyncStart
    \/ SyncBatch
    \/ SyncBatchFails
    \/ SyncReturn

SpecSync == InitSync /\ [][NextSync]_vars

(***************************************************************************)
(* The body of a batch request (buildBatchBody), as the lines it is made   *)
(* of; every line ends with CRLF in the body.                              *)
(***************************************************************************)
\* the header lines of op.Headers
HeaderLines(op) == IF op.IfMatch THEN <<"If-Match: *">> ELSE <<>>

ContentIDLines(op) ==
    IF op.ContentID # "" THEN <<"Content-ID: " \o op.ContentID>> ELSE <<>>

\* writeQueryOperation
writeQueryOperation(op) ==
    <<"Content-Type: application/http", "Content-Transfer-Encoding: binary">>
    \o ContentIDLines(op)
    \o <<"", op.Method \o " " \o op.Path \o " HTTP/1.1">>
    \o HeaderLines(op)
    \o <<"">>

\* writeChangesetOperation
writeChangesetOperation(op, changesetBoundary) ==
    <<"--" \o changesetBoundary,
      "Content-Type: application/http", "Content-Transfer-Encoding: binary">>
    \o ContentIDLines(op)
    \o <<"", op.Method \o " " \o op.Path \o " HTTP/1.1">>
    \o HeaderLines(op)
    \o (IF Len(op.Body) > 0
        THEN <<"Content-Length: " \o ToString(Len(op.Body)), "", op.Body>>
        ELSE <<"">>)
    \o <<"">>

\* the loop over the query operations: each is followed by the boundary
RECURSIVE QueryParts(_, _)
QueryParts(ops, batchBoundary) ==
    IF Len(ops) = 0 THEN <<>>
    ELSE writeQueryOperation(ops[1]) \o <<"--" \o batchBoundary>>
         \o QueryParts(Tail(ops), batchBoundary)

RECURSIVE ChangesetParts(_, _)
ChangesetParts(ops, changesetBoundary) ==
    IF Len(ops) = 0 THEN <<>>
    ELSE writeChangesetOperation(ops[1], changesetBoundary)
         \o ChangesetParts(Tail(ops), changesetBoundary)

\* buildBatchBody
buildBatchBody(operations, batchBoundary, changesetBoundary) ==
    <<"--" \o batchBoundary>>
    \o QueryParts(queryOps(operations), batchBoundary)
    \o (IF Len(changesetOps(operations)) > 0
        THEN <<"Content-Type: multipart/mixed; boundary=" \o changesetBoundary, "">>
             \o ChangesetParts(changesetOps(operations), changesetBoundary)
             \o <<"--" \o changesetBoundary \o "--", "">>
        ELSE <<>>)
    \o <<"--" \o batchBoundary \o "--">>

BuildBody ==
    /\ pc = "body_start"
    /\ pd' = [pd EXCEPT !.body = buildBatchBody(pd.operations, "batch_1", "changeset_2"),
                        !.built = TRUE]
    /\ pc' = "body_built"
    /\ propsFrame

\* the operations a batch is made of: a query, a query without content id, a
\* create with a body, a delete without one
BodyOperation(kind, j) ==
    [ContentID |-> IF kind = "bare" THEN "" ELSE ToString(j),
     IsQuery |-> kind \in {"get", "bare"},
     Method |-> CASE kind \in {"get", "bare"} -> "GET" [] kind = "post" -> "POST"
                  [] OTHER -> "DELETE",
     Path |-> "/p" \o ToString(j),
     IfMatch |-> kind = "delete",
     Body |-> IF kind = "post" THEN "{}" ELSE ""]

InitBody ==
    /\ opts = [replace |-> FALSE, faultBudget |-> 0]
    /\ \E n \in 1..MaxOps :
         \E kinds \in [1..n -> {"get", "bare", "post", "delete"}] :
           pd = [operations |-> [j \in 1..n |-> BodyOperation(kinds[j], j)],
                 body |-> <<>>, built |-> FALSE]
    /\ pc = "body_start" /\ result = ""
    /\ configFiles = <<>>
    /\ tmp = NoTmp /\ merged = NoMerge
    /\ stats = NewStats
    /\ work = <<>> /\ ci = 1 /\ pi = 1 /\ ai = 1
    /\ deploymentTasks = <<>>
    /\ todo = {} /\ packageTasks = <<>> /\ wpc = <<>> /\ werr = <<>>
    /\ semaphore = 0 /\ resultChan = <<>>
    /\ faults = 0 /\ obs = NewObs

NextBody == BuildBody

SpecBody == InitBody /\ [][NextBody]_vars

(***************************************************************************)
(* GetManifestHeaders (internal/deploy/utils.go).                          *)
(***************************************************************************)
\* the lines bufio.Scanner yields: split at LF, a CR before it dropped, no
\* empty line after the last ending
ScanLines(content) == SplitAtAnyEnding(content, "\n")

IsContinuation(line) == HasPrefix(line, " ") \/ HasPrefix(line, "\t")

\* metadata[currentKey] = strings.TrimSpace(currentValue.String())
StoreCurrent(st) ==
    IF st.currentKey # ""
    THEN (st.currentKey :> TrimSpace(st.currentValue)) @@ st.metadata
    ELSE st.metadata

\* the loop over the scanned lines
RECURSIVE ScanHeaders(_, _)
ScanHeaders(lines, st) ==
    IF Len(lines) = 0 THEN st
    ELSE LET line == lines[1]
             trimmed == TrimSpace(line)
             colon == Index(trimmed, ":")
         IN IF Contains(trimmed, ":") /\ ~IsContinuation(line)
            THEN ScanHeaders(Tail(lines),
                    [metadata |-> StoreCurrent(st),
                     currentKey |-> TrimSpace(SubSeq(trimmed, 1, colon - 1)),
                     currentValue |-> TrimSpace(SubSeq(trimmed, colon + 1, Len(trimmed)))])
            ELSE IF st.currentKey # "" /\ IsContinuation(line)
            THEN ScanHeaders(Tail(lines),
                    [st EXCEPT !.currentValue = @ \o " " \o TrimSpace(line)])
            ELSE ScanHeaders(Tail(lines), st)

\* GetManifestHeaders on a file with the given content
GetManifestHeaders(content) ==
    StoreCurrent(ScanHeaders(ScanLines(content),
                             [metadata |-> EmptyFunction, currentKey |-> "",
                              currentValue |-> ""]))

(***************************************************************************)
(* Properties.                                                             *)
(***************************************************************************)
\* tasks for which deployArtifacts has been called
StartedTasks == {n \in DOMAIN obs.deployer : obs.deployer[n] > 0}

PackageAt(o) == work[o[1]].config.Packages[o[2]]
ArtifactAt(o) == PackageAt(o).Artifacts[o[3]]

\* C1: the deployer is not called before every Phase-1 call of every package
\* of every manifest has returned: once deployArtifacts has been called for
\* some task, the loop over the manifests is over, it has reached every
\* package of every manifest, and no call of the package syncer or of
\* SingleArtifactToTenant is in flight or can follow.
C1_Phase1CompleteBeforeDeploy ==
    StartedTasks # {} =>
       /\ ci > Len(work)
       /\ pc \in {"wait", "group", "summary", "returned"}
       /\ \A c \in 1..Len(work) : \A p \in 1..Len(work[c].config.Packages) :
             <<c, p>> \in obs.visited

\* a deployer call is in flight in a run of several manifests whose packages
\* and artifacts went through Phase 1
C1_Witness ==
    /\ \E k \in DOMAIN wpc : wpc[k] = "deploying"
    /\ Len(work) > 1
    /\ \E o \in obs.syncer : o[1] = Len(work)
    /\ \E o \in obs.updater : o[1] = Len(work)

\* workers inside deployArtifacts
InFlight == {k \in DOMAIN wpc : wpc[k] = "deploying"}

\* every worker of the group of packageID has exited
GroupFinished(packageID) ==
    \A n \in 1..Len(deploymentTasks) :
       deploymentTasks[n].PackageID = packageID => n \in obs.finished

\* C2: at most parallelDeployments deployer calls are in flight at any instant,
\* and the groups are processed one at a time: of two tasks of different
\* packages whose deployer call has started, the group of one has finished
\* entirely.
C2_BoundedAndGroupwise ==
    /\ Cardinality(InFlight) <= opts.parallelDeployments
    /\ \A a \in StartedTasks, b \in StartedTasks :
          deploymentTasks[a].PackageID # deploymentTasks[b].PackageID =>
             \/ GroupFinished(deploymentTasks[a].PackageID)
             \/ GroupFinished(deploymentTasks[b].PackageID)

\* in a second group every slot is taken and a further worker waits for one
C2_Witness ==
    /\ Cardinality(InFlight) = opts.parallelDeployments
    /\ \E k \in DOMAIN wpc : wpc[k] = "spawned"
    /\ obs.finished # {}

\* packages of the task list with and without a failed task
PackagesWithFailure ==
    {deploymentTasks[n].PackageID : n \in obs.deployFailed}
PackagesWithoutFailure ==
    {deploymentTasks[n].PackageID : n \in 1..Len(deploymentTasks)} \ PackagesWithFailure

\* C3: when deployAllArtifactsParallel has returned, deployArtifacts was called
\* exactly once for every task, the artifact IDs of the tasks that returned nil
\* make up SuccessfulArtifactDeploys and those of the tasks that returned an
\* error FailedArtifactDeploys, and a group counts in PackagesDeployed iff none
\* of its tasks failed, else in PackagesFailed.
C3_EveryTaskDeployedOnce ==
    /\ \A n \in DOMAIN obs.deployer : obs.deployer[n] <= 1
    /\ pc = "summary" =>
          /\ \A n \in 1..Len(deploymentTasks) : obs.deployer[n] = 1
          /\ stats.SuccessfulArtifactDeploys =
                {deploymentTasks[n].ArtifactID :
                    n \in (1..Len(deploymentTasks)) \ obs.deployFailed}
          /\ stats.FailedArtifactDeploys =
                {deploymentTasks[n].ArtifactID : n \in obs.deployFailed}
          /\ stats.PackagesDeployed = Cardinality(PackagesWithoutFailure)
          /\ stats.PackagesFailed = Cardinality(PackagesWithFailure)

\* the call has returned after two groups, one with a failed task and one
\* without
C3_Witness ==
    /\ pc = "summary"
    /\ PackagesWithFailure # {} /\ PackagesWithoutFailure # {}
    /\ Len(deploymentTasks) >= 3

\* workers that hold a slot of the semaphore
HeldSlots ==
    Cardinality({k \in DOMAIN wpc : wpc[k] \in {"deploying", "sending", "exiting"}})

\* C4: for every parallelDeployments >= 1 and every task list
\* deployAllArtifactsParallel returns, so no worker blocks forever on the
\* semaphore or on resultChan, and the slots taken are exactly those of the
\* workers between acquiring and exiting, so every slot is released whether
\* the deployer returned nil or an error.
C4_TerminatesAndReleases ==
    /\ <>(pc = "summary")
    /\ [](semaphore = HeldSlots)
    /\ [](pc = "summary" => semaphore = 0)

\* a worker waits for a slot while every slot is held, one of them by a worker
\* whose deployer call failed
C4_Witness ==
    /\ pc = "wait"
    /\ semaphore = opts.parallelDeployments
    /\ \E k \in DOMAIN wpc : wpc[k] = "spawned"
    /\ \E k \in DOMAIN wpc : wpc[k] = "exiting" /\ werr[k]

\* C5: an artifact whose Phase-1 update failed has its ID in
\* FailedArtifactUpdates and no deployment task is built from it, so the
\* deployer is never called for it.
C5_FailedUpdateNeverDeployed ==
    \A o \in obs.updateFailed :
       /\ ArtifactAt(o).Id \in stats.FailedArtifactUpdates
       /\ \A n \in DOMAIN obs.taskOrigin : obs.taskOrigin[n] # o

\* the run is over, an artifact failed in Phase 1 and another artifact of the
\* same package was deployed
C5_Witness ==
    /\ pc = "returned"
    /\ \E o \in obs.updateFailed : \E n \in DOMAIN obs.taskOrigin :
          /\ obs.taskOrigin[n][1] = o[1] /\ obs.taskOrigin[n][2] = o[2]
          /\ obs.deployer[n] = 1

\* artifacts of package o that went to SingleArtifactToTenant
UpdatedArtifactsOf(o) == {u \in obs.updater : u[1] = o[1] /\ u[2] = o[2]}

\* C6 as stated: a package for which the package syncer returned an error is
\* in FailedPackageUpdates, PackagesFailed counts it and none of its artifacts
\* goes to the artifact updater.
C6_SyncerErrorRecordedAsFailure ==
    \A o \in obs.syncerFailed :
       /\ PackageAt(o).ID \in stats.FailedPackageUpdates
       /\ stats.PackagesFailed >= 1
       /\ UpdatedArtifactsOf(o) = {}

\* C6: a package for which updatePackage returned an error is in
\* FailedPackageUpdates, PackagesFailed counts it and none of its artifacts
\* goes to the artifact updater; the loop still reaches every package of every
\* manifest.  An error of the package syncer is not such an error: the
\* package is recorded in SuccessfulPackageUpdates.
C6_ReturnedErrorRecordedAsFailure ==
    /\ \A o \in obs.pkgFailed :
          /\ PackageAt(o).ID \in stats.FailedPackageUpdates
          /\ stats.PackagesFailed >= Cardinality(obs.pkgFailed)
          /\ UpdatedArtifactsOf(o) = {}
    /\ \A o \in obs.syncerFailed :
          /\ o \notin obs.pkgFailed
          /\ PackageAt(o).ID \in stats.SuccessfulPackageUpdates
    /\ pc = "summary" =>
          \A c \in 1..Len(work) : \A p \in 1..Len(work[c].config.Packages) :
             <<c, p>> \in obs.visited

\* updatePackage failed for a package and the package syncer was called for a
\* later one
C6_Witness ==
    \E o \in obs.pkgFailed : \E q \in obs.syncer :
       q[1] > o[1] \/ (q[1] = o[1] /\ q[2] > o[2])

\* C7 as stated: runOrchestrator returns "deployment completed with failures"
\* iff a failure is recorded in FailedPackageUpdates, FailedArtifactUpdates or
\* FailedArtifactDeploys.
C7_FailuresErrorIffFailureRecorded ==
    pc = "returned" =>
       ((result = FailuresError) <=>
           (stats.FailedPackageUpdates \cup stats.FailedArtifactUpdates
               \cup stats.FailedArtifactDeploys) # {})

\* C8: in update-only mode no deployment task is collected and the deployer
\* is never called; in deploy-only mode the package syncer and the artifact
\* updater are never called and no work directory is created; in
\* update-and-deploy mode both phases run: a run that reaches the summary has
\* called the deployer once for every task, and without filters and failures
\* it has called the package syncer, the artifact updater and the deployer.
C8_ModeGating ==
    /\ opts.mode = ModeUpdateOnly =>
          /\ deploymentTasks = <<>> /\ StartedTasks = {}
          /\ pc \notin {"group", "wait"}
    /\ opts.mode = ModeDeployOnly =>
          /\ obs.syncer = {} /\ obs.updater = {}
          /\ stats.PackagesUpdated = 0 /\ stats.SuccessfulArtifactUpdates = {}
          /\ tmp.created = 0
    /\ (opts.mode = ModeUpdateAndDeploy /\ pc = "returned"
           /\ result \in {"nil", FailuresError}) =>
          /\ \A n \in DOMAIN obs.deployer : obs.deployer[n] = 1
          /\ (faults = 0 /\ opts.packageFilter = <<>> /\ opts.artifactFilter = <<>>) =>
                /\ obs.syncer # {} /\ obs.updater # {}
                /\ StartedTasks # {}

\* a deploy-only run is over and has deployed artifacts
C8_Witness ==
    /\ pc = "returned" /\ opts.mode = ModeDeployOnly
    /\ StartedTasks # {}
    /\ Len(work) > 1

\* C9: the work directory is created at most once and only when the mode is
\* not deploy-only; once runOrchestrator has returned, a directory that was
\* created is gone iff keepTemp is false; with keepTemp it is never removed.
C9_WorkDirLifecycle ==
    /\ tmp.created <= 1
    /\ tmp.created = 1 => opts.mode # ModeDeployOnly
    /\ (pc = "returned" /\ tmp.created = 1) => (tmp.exists <=> opts.keepTemp)
    /\ opts.keepTemp => (obs.removed = 0 /\ (tmp.created = 1 => tmp.exists))
    /\ obs.removed <= tmp.created

\* runOrchestrator returned an error after the work directory was created,
\* and the directory is gone
C9_Witness ==
    /\ pc = "returned" /\ result \notin {"nil", ""}
    /\ tmp.created = 1 /\ ~tmp.exists /\ obs.removed = 1

\* the positions (manifest, package) of the input of MergeConfigs
MergePositions ==
    UNION {{<<i, j>> : j \in 1..Len(configFiles[i].Config.Packages)} :
              i \in 1..Len(configFiles)}

\* prefix followed by package ID
QualifiedIDAt(a) ==
    configFiles[a[1]].Config.DeploymentPrefix
        \o configFiles[a[1]].Config.Packages[a[2]].ID

\* two packages of the input with the same fully-qualified ID, in input order
DuplicatePairs ==
    {d \in MergePositions \X MergePositions :
        /\ d[1][1] < d[2][1] \/ (d[1][1] = d[2][1] /\ d[1][2] < d[2][2])
        /\ QualifiedIDAt(d[1]) = QualifiedIDAt(d[2])}

\* C10: the package IDs of a config MergeConfigs returns are pairwise
\* distinct; when two packages of the input have the same fully-qualified ID
\* (prefix followed by package ID), MergeConfigs returns an error that
\* contains that ID and the file names of both manifests; without such a pair
\* a non-empty input is merged.
C10_MergedIDsDistinctOrError ==
    pc = "merged" =>
       /\ merged.ok =>
             \A m \in 1..Len(merged.config.Packages) :
                \A n \in 1..Len(merged.config.Packages) :
                   m # n => merged.config.Packages[m].ID # merged.config.Packages[n].ID
       /\ DuplicatePairs # {} =>
             /\ ~merged.ok
             /\ \E d \in DuplicatePairs :
                   /\ Contains(merged.err, "'" \o QualifiedIDAt(d[1]) \o "'")
                   /\ Contains(merged.err, " found in " \o configFiles[d[2][1]].FileName)
                   /\ Contains(merged.err, " from " \o configFiles[d[1][1]].FileName)
       /\ (DuplicatePairs = {} /\ Len(configFiles) > 0) => merged.ok

\* MergeConfigs refused two manifests with different prefixes whose packages
\* have the same fully-qualified ID
C10_Witness ==
    /\ pc = "merged" /\ ~merged.ok
    /\ \E d \in DuplicatePairs :
          /\ d[1][1] # d[2][1]
          /\ configFiles[d[1][1]].Config.DeploymentPrefix
                # configFiles[d[2][1]].Config.DeploymentPrefix

\* what the merge makes of a package of a manifest with prefix P
ExpectedMergedPackage(P, pkg) ==
    IF P = "" THEN pkg
    ELSE [pkg EXCEPT
            !.ID = P \o pkg.ID,
            !.DisplayName = P \o " - " \o (IF pkg.DisplayName # "" THEN pkg.DisplayName
                                           ELSE pkg.ID),
            !.Artifacts = [k \in 1..Len(pkg.Artifacts) |->
                             [pkg.Artifacts[k] EXCEPT !.Id = P \o "_" \o pkg.Artifacts[k].Id]]]

\* the transformed packages of the manifests from the i-th on, in input order
RECURSIVE ExpectedMergedPackages(_, _)
ExpectedMergedPackages(files, i) ==
    IF i > Len(files) THEN <<>>
    ELSE [j \in 1..Len(files[i].Config.Packages) |->
             ExpectedMergedPackage(files[i].Config.DeploymentPrefix,
                                   files[i].Config.Packages[j])]
         \o ExpectedMergedPackages(files, i + 1)

PastPreparation == pc \in {"pkg", "pkg_sync", "art", "art_update", "collect",
                           "group", "wait", "summary", "returned"}

\* C12 as stated: when a prefix that is applied, the command-line prefix or
\* the deploymentPrefix of a loaded manifest, has a character outside
\* [A-Za-z0-9_], runOrchestrator fails before Phase 1 begins: no package is
\* reached, nothing is updated and nothing is deployed.
C12_InvalidPrefixStopsBeforePhase1 ==
    (/\ PastPreparation
     /\ \E i \in 1..Len(configFiles) :
           ~ValidateDeploymentPrefix(configFiles[i].Config.DeploymentPrefix)) =>
       /\ obs.visited = {} /\ obs.syncer = {} /\ obs.updater = {}
       /\ StartedTasks = {}


\* pd-deploy -------------------------------------------------------------
\* the partner IDs the run may touch: those with a local directory that
\* the --pids filter does not exclude
SelectedPIDs ==
    {pid \in {pd.local[k].Pid : k \in 1..Len(pd.local)} :
        Len(opts.pidsFilter) = 0 \/ contains(opts.pidsFilter, pid)}

MutationOps == {"create", "update", "delete"}

\* the tenant's parameters of the partners the run must leave alone
Untouchable(list) == SelectSeq(list, LAMBDA e : e.Pid \notin SelectedPIDs)

\* C13: whatever replace, full-sync, dry-run and the filter are, no create,
\* update or delete call is issued for a parameter of a partner without a
\* local directory or excluded by the filter, every key in Deleted belongs
\* to a managed partner, and the tenant's parameters of the other partners
\* stay as they were.
C13_NoMutationOutsideSelected ==
    /\ \A c \in pd.calls : c.op \in MutationOps => c.Pid \in SelectedPIDs
    /\ \A c \in pd.calls : c.op = "delete" => contains(pd.managedPIDs, c.Pid)
    /\ Untouchable(pd.remote.str) = Untouchable(pd.remote0.str)
    /\ Untouchable(pd.remote.bin) = Untouchable(pd.remote0.bin)

\* a full sync restricted to partner A has created, updated and deleted
\* while the tenant holds parameters of B (excluded, different value) and C
C13_Witness ==
    /\ pc = "returned" /\ result = "nil"
    /\ opts.fullSync /\ opts.pidsFilter = <<"A">>
    /\ \A op \in MutationOps : \E c \in pd.calls : c.op = op
    /\ \E k \in 1..Len(pd.remote0.str) :
          pd.remote0.str[k].Pid = "B" /\ pd.remote0.str[k].Value = "w"
    /\ \E k \in 1..Len(pd.remote.bin) : pd.remote.bin[k].Pid = "C"

\* the causes of the entries of an Errors list
Causes(res) == {res.Errors[k].cause : k \in 1..Len(res.Errors)}

\* C14: with dryRun=true no create, update or delete call is issued for any
\* string or binary parameter, with fullSync=true as well: the only calls
\* to the tenant are the probes of single parameters, the tenant stays as
\* it was, nothing is deleted, and every entry of the Errors lists comes
\* from a failed probe or a failed local read.
C14_DryRunNeverMutates ==
    opts.dryRun =>
        /\ \A c \in pd.calls : c.op = "get"
        /\ pd.remote = pd.remote0
        /\ ~pd.deleted /\ pd.results = NewBatchResult
        /\ Causes(pd.stringResults) \cup Causes(pd.binaryResults)
              \subseteq {"probe", "read"}

\* a dry run with full sync has returned after reporting a parameter it
\* would create, one it would update and a failed probe, and the tenant
\* still holds the parameter of A that a full sync would delete
C14_Witness ==
    /\ pc = "returned" /\ result = "nil"
    /\ opts.dryRun /\ opts.fullSync /\ opts.replace
    /\ Len(pd.stringResults.Created) > 0
    /\ Len(pd.stringResults.Updated) > 0
    /\ "probe" \in Causes(pd.binaryResults)
    /\ \E k \in 1..Len(pd.remote.str) :
          pd.remote.str[k].Pid = "A" /\ pd.remote.str[k].ID = "x"

\* the keys of the four lists of a result, one after the other
ListedKeys(res) ==
    res.Created \o res.Updated \o res.Unchanged
    \o [k \in 1..Len(res.Errors) |-> res.Errors[k].Key]

Occurrences(list, key) == Cardinality({k \in 1..Len(list) : list[k] = key})

\* the string parameters the loop has dealt with so far
StringTrace == {pd.trace[k] : k \in {n \in 1..Len(pd.trace) : pd.trace[n].kind = "string"}}

TraceKey(t) == ParamKey(t.param.Pid, t.param.ID)

\* the string parameters of the selected partners, once the loop is over
SelectedStringParameters(pids) ==
    UNION {{ReadParameters(pd.local, "string", pid)[n] :
               n \in 1..Len(ReadParameters(pd.local, "string", pid))} : pid \in pids}

StringLoopOver == pc = "pd_binary_begin"

InErrors(res, key) == \E k \in 1..Len(res.Errors) : res.Errors[k].Key = key

\* C15 as stated: every local parameter of every selected partner ends in
\* exactly one of Created, Updated, Unchanged, Errors; a create is issued iff
\* the probe reports the parameter absent, an update iff it is present with
\* a different value and replace=true; it is Unchanged when present with an
\* equal value or replace=false; a failed probe or mutation puts it in
\* Errors only.
C15_StringDispatchAsStated ==
    /\ \A t \in StringTrace :
          LET key == TraceKey(t)
              differs == t.existing.Value # t.param.Value
          IN /\ (t.issued = "create") <=> (~t.probeFailed /\ ~t.existed)
             /\ (t.issued = "update") <=>
                    (~t.probeFailed /\ t.existed /\ differs /\ opts.replace)
             /\ contains(pd.stringResults.Unchanged, key) <=>
                    (~t.probeFailed /\ t.existed /\ (~differs \/ ~opts.replace))
             /\ (t.probeFailed \/ t.failed) <=> InErrors(pd.stringResults, key)
             /\ Occurrences(ListedKeys(pd.stringResults), key) = 1
    /\ StringLoopOver =>
          \A param \in SelectedStringParameters(SelectedPIDs) :
             Occurrences(ListedKeys(pd.stringResults),
                         ParamKey(param.Pid, param.ID)) = 1

\* C15, amended: every local parameter of every selected partner whose
\* String.properties was read ends in exactly one of the four lists, and a
\* partner whose file could not be read has one entry in Errors and none of
\* its parameters in any list.  The list is Created iff the probe reports
\* the parameter absent, Updated iff it is present with a different value
\* and replace=true, Unchanged iff it is present with an equal value or
\* replace=false, unless the probe or the call failed, which puts it in
\* Errors only.  With dryRun=false the create or the update is issued
\* exactly in these cases; with dryRun=true no call is issued and only a
\* failed probe leads to Errors.
C15_StringDispatch ==
    /\ \A t \in StringTrace :
          LET key == TraceKey(t)
              differs == t.existing.Value # t.param.Value
              absent == ~t.probeFailed /\ ~t.existed
              changed == ~t.probeFailed /\ t.existed /\ differs /\ opts.replace
          IN /\ ~opts.dryRun => ((t.issued = "create") <=> absent)
             /\ ~opts.dryRun => ((t.issued = "update") <=> changed)
             /\ opts.dryRun => (t.issued = "none" /\ ~t.failed)
             /\ contains(pd.stringResults.Created, key) <=> (absent /\ ~t.failed)
             /\ contains(pd.stringResults.Updated, key) <=> (changed /\ ~t.failed)
             /\ contains(pd.stringResults.Unchanged, key) <=>
                    (~t.probeFailed /\ t.existed /\ (~differs \/ ~opts.replace))
             /\ (t.probeFailed \/ t.failed) <=> InErrors(pd.stringResults, key)
             /\ Occurrences(ListedKeys(pd.stringResults), key) = 1
    /\ StringLoopOver =>
          \A pid \in SelectedPIDs :
             \A param \in SelectedStringParameters({pid}) :
                LET key == ParamKey(param.Pid, param.ID)
                IN IF <<"string", pid>> \in pd.unread
                   THEN /\ Occurrences(ListedKeys(pd.stringResults), key) = 0
                        /\ Occurrences(ListedKeys(pd.stringResults), pid) = 1
                   ELSE Occurrences(ListedKeys(pd.stringResults), key) = 1

\* the loop is over with replace=false and the calls being made: a
\* parameter was created, one with a different value on the tenant was left
\* Unchanged, and a failed call is in Errors
C15_Witness ==
    /\ StringLoopOver /\ ~opts.dryRun /\ ~opts.replace
    /\ Len(pd.stringResults.Created) > 0
    /\ \E t \in StringTrace :
          /\ t.existed /\ t.existing.Value # t.param.Value
          /\ contains(pd.stringResults.Unchanged, TraceKey(t))
    /\ \E t \in StringTrace : t.failed

\* the binary parameters the loop has dealt with so far
BinaryTrace == {pd.trace[k] : k \in {n \in 1..Len(pd.trace) : pd.trace[n].kind = "binary"}}

\* C16: with replace=true a binary parameter found on the tenant is updated
\* whenever the local pair (value, contentType) differs from the tenant's,
\* also when only the content type differs, and is Unchanged only when
\* value and content type are both equal.
C16_BinaryPairDecidesUpdate ==
    \A t \in BinaryTrace :
       (opts.replace /\ ~t.probeFailed /\ t.existed) =>
          LET pairDiffers == BinaryPairDiffers(t.existing, t.param)
          IN /\ ~opts.dryRun => ((t.issued = "update") <=> pairDiffers)
             /\ contains(pd.binaryResults.Unchanged, TraceKey(t)) <=> ~pairDiffers

\* pd-snapshot -----------------------------------------------------------
\* the tenant's binary parameters that a complete snapshot saves: those the
\* filter lets through, whose value decodes, and that are not skipped
Savable ==
    {param \in {pd.remote.bin[k] : k \in 1..Len(pd.remote.bin)} :
        /\ Len(opts.pidsFilter) = 0 \/ contains(opts.pidsFilter, param.Pid)
        /\ DecodesBase64(param.Value)
        /\ opts.replace \/ (param.Pid \o "/" \o param.ID) \notin pd.files0}

\* C17: a failure on one parameter, here a binary value of the tenant that
\* cannot be decoded, does not prevent the remaining parameters and
\* partners from being processed: when the snapshot has returned without
\* a failure of the environment, every other binary parameter has its file.
C17_FailureDoesNotStopTheRest ==
    (pc = "returned" /\ faults = 0) =>
        \A param \in Savable : BinaryFilePath(param.Pid, param) \in pd.files

\* String.properties ------------------------------------------------------
\* C18: for every property value v over an alphabet with the backslash,
\* the letters n and r, the line feed and the carriage return,
\* unescapePropertyValue(escapePropertyValue(v)) = v.
C18_UnescapeInvertsEscape ==
    pc = "done" => pd.unescaped = pd.value

\* the (id, value) pairs of a list of parameters
Pairs(params) == {<<params[k].ID, params[k].Value>> : k \in 1..Len(params)}

\* the keys of the lines of the file, in the order of the lines
KeysOnDisk(content) ==
    LET pairs == ParseLines(SplitLines(content, ""), 1)
    IN [k \in 1..Len(pairs) |-> pairs[k].key]

Ascending(keys) == \A k \in 1..(Len(keys) - 1) : StringLess(keys[k], keys[k + 1])

\* C19: for every set of string parameters with distinct IDs,
\* WriteStringParameters(replace=true) followed by ReadStringParameters
\* returns exactly the written (id, value) pairs, and the lines of
\* String.properties are in ascending key order.
C19_WriteReadRoundTrip ==
    (pc = "props_read" /\ opts.replace) =>
        /\ Pairs(pd.read) = Pairs(pd.params)
        /\ Len(pd.read) = Len(pd.params)
        /\ Ascending(KeysOnDisk(pd.file.content))

\* the lines of the file before and after the write
LinesBefore == ParseLines(SplitLines(pd.file0.content, ""), 1)

LinesAfter == ParseLines(SplitLines(pd.file.content, ""), 1)

KeysBefore == {LinesBefore[k].key : k \in 1..Len(LinesBefore)}

IncomingIDs == {pd.params[k].ID : k \in 1..Len(pd.params)}

Merged == pc # "props_start" /\ ~opts.replace /\ pd.file0.exists

\* C20: WriteStringParameters with replace=false on an existing
\* String.properties keeps the value the file holds for every key it already
\* had (the text after the first "=" of the key's line, as the program reads
\* it), adds exactly the incoming keys that were not present, each once,
\* writes the union in ascending key order, and reports as added the number
\* of incoming keys that were not present.
C20_MergeKeepsExistingAddsNew ==
    Merged =>
        /\ \A key \in KeysBefore :
              \E k \in 1..Len(LinesAfter) :
                 LinesAfter[k].key = key /\ LinesAfter[k].raw = ExistingRaw(LinesBefore, key)
        /\ {LinesAfter[k].key : k \in 1..Len(LinesAfter)} = KeysBefore \cup IncomingIDs
        /\ Len(LinesAfter) = Cardinality(KeysBefore \cup IncomingIDs)
        /\ Ascending(KeysOnDisk(pd.file.content))
        /\ pd.file.addedCount = Cardinality(IncomingIDs \ KeysBefore)

\* a merge of the parameters a and b into a file that holds b, with another
\* value, and c: one key was added
C20_Witness ==
    /\ Merged
    /\ KeysBefore = {"b", "c"} /\ IncomingIDs = {"a", "b"}
    /\ \E k \in 1..Len(pd.params) :
          pd.params[k].ID = "b" /\ pd.params[k].Value # ExistingRaw(LinesBefore, "b")
    /\ pd.file.addedCount = Cardinality({"a"})

\* Binary directory ------------------------------------------------------
\* the parameter written and the name of its file
WrittenParam == pd.params[1]

WrittenName == BinaryFileName(WrittenParam.ID, WrittenParam.ContentType)

\* C21: WriteBinaryParameters with replace=false never overwrites a binary
\* file that exists for a parameter: when the file that would be written
\* for (id, contentType) exists, its content and the sidecar are unchanged.
C21_AddOnlyKeepsExistingFile ==
    (pc # "binary_start" /\ ~opts.replace /\ WrittenName \in DOMAIN pd.dir0.files) =>
        /\ pd.dir.files[WrittenName] = pd.dir0.files[WrittenName]
        /\ pd.dir.metadata = pd.dir0.metadata

\* C22: for every binary parameter, WriteBinaryParameters(replace=true)
\* followed by ReadBinaryParameters returns a parameter with the same ID,
\* the same value and the same content type, with or without content-type
\* parameters, for simple tokens and for MIME types, and for IDs that
\* already end with the extension.
C22_BinaryWriteReadRoundTrip ==
    (pc = "binary_read" /\ opts.replace) =>
        \E k \in 1..Len(pd.read) :
           /\ pd.read[k].ID = WrittenParam.ID
           /\ pd.read[k].Value = WrittenParam.Value
           /\ pd.read[k].ContentType = WrittenParam.ContentType

\* the parameter was saved by the write
Saved ==
    /\ pc # "binary_start" /\ ~pd.dir.err
    /\ opts.replace \/ ~ExistsByID(pd.dir0.files, WrittenParam)

\* the file name the rule of the specification gives
ExpectedFileName(id, contentType) ==
    LET ext == getFileExtension(contentType)
    IN IF HasSuffix(ToLower(id), "." \o ToLower(ext)) THEN id ELSE id \o "." \o ext

\* C23: the file of a binary parameter is named by its ID whenever the ID
\* already ends with "." and the resolved extension, compared without
\* regard to letter case of the ID and of the content type, and ID.ext
\* otherwise; the sidecar uses the same name as key; no file gets a doubled
\* extension.
C23_FileNameWithoutDoubledExtension ==
    Saved =>
        LET name == ExpectedFileName(WrittenParam.ID, WrittenParam.ContentType)
            ext == ToLower(getFileExtension(WrittenParam.ContentType))
        IN /\ name \in DOMAIN pd.dir.files
           /\ DOMAIN pd.dir.files \subseteq DOMAIN pd.dir0.files \cup {name}
           /\ Contains(WrittenParam.ContentType, ";") =>
                 (name \in DOMAIN pd.dir.metadata
                    /\ pd.dir.metadata[name] = WrittenParam.ContentType)
           /\ \A f \in DOMAIN pd.dir.files \ DOMAIN pd.dir0.files :
                 ~HasSuffix(ToLower(f), "." \o ext \o "." \o ext)

\* Batch client ----------------------------------------------------------
BatchPositions == {"batch_start", "batch_loop", "batch_done"}

EffectiveBatchSize == IF pd.batchSize0 <= 0 THEN DefaultBatchSize ELSE pd.batchSize0

BatchCount == (Len(pd.operations) + EffectiveBatchSize - 1) \div EffectiveBatchSize

AllWellFormed == \A j \in 1..Len(pd.shapes) : WellFormed(pd.shapes[j])

\* the operations the returned responses answer, in the order returned
AnsweredOps == [j \in 1..Len(pd.ret.Operations) |-> pd.ret.Operations[j].op]

ContentIDs(operations) == [j \in 1..Len(operations) |-> operations[j].ContentID]

\* the order one batch is answered in: its queries, then its changeset
SectionOrder(operations) == ContentIDs(queryOps(operations) \o changesetOps(operations))

RECURSIVE BatchOrder(_, _)
BatchOrder(batches, k) ==
    IF k > Len(batches) THEN <<>>
    ELSE SectionOrder(batches[k].operations) \o BatchOrder(batches, k + 1)

BoundariesOf(batches) ==
    {batches[k].boundary : k \in 1..Len(batches)}
        \cup {batches[k].changesetBoundary : k \in 1..Len(batches)}

\* C24 as stated: when every sub-response is well formed, the responses
\* ExecuteInBatches returns are in the order of the operations handed in.
C24_ResponsesInInputOrder ==
    (pc = "batch_done" /\ ~pd.ret.err /\ AllWellFormed)
        => AnsweredOps = ContentIDs(pd.operations)

\* C24: ExecuteInBatches executes the operations in groups of at most s
\* (90 when s <= 0), group after group in input order, each batch with two
\* boundaries no other batch has; without a failure there are ceil(n/s)
\* batches and the result is the responses of the batches in batch order,
\* each batch answered queries first and changeset after; after a failure
\* the result is an error and no response.
C24_BatchesInOrderSectionsWithin ==
    pc = "batch_done" =>
        /\ \A k \in 1..Len(pd.batches) :
             /\ pd.batches[k].first = (k - 1) * EffectiveBatchSize
             /\ Len(pd.batches[k].operations) <= EffectiveBatchSize
             /\ Len(pd.batches[k].operations) >= 1
             /\ pd.batches[k].operations =
                  SubSeq(pd.operations, pd.batches[k].first + 1,
                         pd.batches[k].first + Len(pd.batches[k].operations))
        /\ Cardinality(BoundariesOf(pd.batches)) = 2 * Len(pd.batches)
        /\ Len(pd.batches) <= BatchCount
        /\ ~pd.ret.err =>
             /\ Len(pd.batches) = BatchCount
             /\ AllWellFormed => AnsweredOps = BatchOrder(pd.batches, 1)
        /\ pd.ret.err => pd.ret.Operations = <<>>

\* two batches, the first with a query added after a change, all answered
C24_Witness ==
    /\ pc = "batch_done" /\ ~pd.ret.err /\ AllWellFormed
    /\ Len(pd.batches) >= 2
    /\ SectionOrder(pd.batches[1].operations) # ContentIDs(pd.batches[1].operations)
    /\ AnsweredOps = BatchOrder(pd.batches, 1)

\* the batch holds all the operations and the tenant has answered it
OneBatchAnswered ==
    /\ pc = "batch_done" /\ ~pd.failed
    /\ Len(pd.batches) = 1
    /\ pd.batches[1].operations = pd.operations

\* C25: a batch of k operations answered with one sub-response per operation
\* returns k responses in the order of the sub-responses (queries, then the
\* changeset, each section in the order added); a sub-part without a status
\* line gives a response with Error at its position, every other response
\* stays where it is with its own status code.
C25_OneResponsePerSubResponse ==
    OneBatchAnswered =>
        /\ ~pd.ret.err
        /\ Len(pd.ret.Operations) = Len(pd.operations)
        /\ AnsweredOps = SectionOrder(pd.operations)
        /\ \A j \in 1..Len(pd.ret.Operations) :
             LET r == pd.ret.Operations[j]
             IN /\ ~pd.shapes[r.op].statusLine => r.Error
                /\ WellFormed(pd.shapes[r.op]) =>
                     ~r.Error /\ r.StatusCode = pd.shapes[r.op].StatusCode

\* Boundaries --------------------------------------------------------------
\* the calls of generateBoundary that have returned: <<goroutine, call>>
ReturnedCalls ==
    {<<g, k>> : g \in DOMAIN pd.callers, k \in 1..2}
        \cap {c \in (DOMAIN pd.callers) \X (1..2) : c[2] <= Len(pd.callers[c[1]].values)}

\* C26: whatever the interleaving of the concurrent NewBatchRequest calls,
\* no two calls of generateBoundary return the same counter value.
C26_BoundariesUnique ==
    pc = "boundaries" =>
        \A c, d \in ReturnedCalls :
            c # d => pd.callers[c[1]].values[c[2]] # pd.callers[d[1]].values[d[2]]

\* Manifest ----------------------------------------------------------------
\* the lines of a file, whatever the ending of each of them
LinesOf(content) == SplitAtAnyEnding(content, "\n")

BundleNameLines(lines) == SelectSeq(lines, IsBundleName)

IsOtherLine(line) == ~IsBundleName(line) /\ ~IsBundleSymbolicName(line)

OtherLines(lines) == SelectSeq(lines, IsOtherLine)

OneBundleName == Len(BundleNameLines(pd.lines)) = 1

\* C27: a manifest with exactly one Bundle-Name line is written with
\* exactly one Bundle-Name line, "Bundle-Name: <bundleName>"; the lines that
\* are neither Bundle-Name nor Bundle-SymbolicName are the same, in the same
\* order; a Bundle-SymbolicName the file lacked is there; the file holds a
\* CRLF iff the input held one.
C27_ManifestRewritten ==
    (pc = "manifest_done" /\ pd.written /\ OneBundleName) =>
        /\ BundleNameLines(LinesOf(pd.output)) = <<"Bundle-Name: N">>
        /\ OtherLines(LinesOf(pd.output)) = OtherLines(pd.lines)
        /\ \E k \in 1..Len(LinesOf(pd.output)) :
              IsBundleSymbolicName(LinesOf(pd.output)[k])
        /\ Contains(pd.output, "\r\n") <=> Contains(pd.content, "\r\n")

\* parameters.prop -----------------------------------------------------------
\* the key=value lines of a file, line by line
IsParameterLine(line) ==
    LET trimmed == TrimSpace(line)
    IN trimmed # "" /\ ~HasPrefix(trimmed, "#") /\ Index(trimmed, "=") > 0

KeyOf(line) ==
    LET trimmed == TrimSpace(line)
    IN TrimSpace(SubSeq(trimmed, 1, Index(trimmed, "=") - 1))

ValueOf(line) ==
    LET trimmed == TrimSpace(line)
    IN TrimSpace(SubSeq(trimmed, Index(trimmed, "=") + 1, Len(trimmed)))

KeysOf(lines) ==
    LET entries == SelectSeq(lines, IsParameterLine)
    IN [k \in 1..Len(entries) |-> KeyOf(entries[k])]

\* the keys in the order they first occur
RECURSIVE FirstOccurrences(_, _)
FirstOccurrences(keys, seen) ==
    IF Len(keys) = 0 THEN <<>>
    ELSE IF keys[1] \in seen THEN FirstOccurrences(Tail(keys), seen)
    ELSE <<keys[1]>> \o FirstOccurrences(Tail(keys), seen \cup {keys[1]})

\* the value the file gives a key: the one of its last line
FileValue(lines, key) ==
    LET entries == SelectSeq(lines, IsParameterLine)
        last == CHOOSE k \in 1..Len(entries) :
                   /\ KeyOf(entries[k]) = key
                   /\ \A j \in (k + 1)..Len(entries) : KeyOf(entries[j]) # key
    IN ValueOf(entries[last])

\* C28: the output holds the keys of the file in file order, each with the
\* value of the file or, if there is one, of the override; the override keys
\* the file lacks follow; every key is there exactly once.
C28_MergedInFileOrder ==
    (pc = "params_done" /\ pd.written) =>
        LET fileKeys == FirstOccurrences(KeysOf(pd.lines), {})
            out == LinesOf(pd.output)
            outKeys == KeysOf(out)
        IN /\ SubSeq(outKeys, 1, Len(fileKeys)) = fileKeys
           /\ Len(outKeys) = Cardinality({fileKeys[k] : k \in 1..Len(fileKeys)}
                                         \cup DOMAIN pd.overrides)
           /\ {outKeys[k] : k \in 1..Len(outKeys)} =
                 {fileKeys[k] : k \in 1..Len(fileKeys)} \cup DOMAIN pd.overrides
           /\ \A k \in 1..Len(outKeys) :
                FileValue(out, outKeys[k]) =
                    IF outKeys[k] \in DOMAIN pd.overrides THEN pd.overrides[outKeys[k]]
                    ELSE FileValue(pd.lines, outKeys[k])

\* Artifact type -------------------------------------------------------------
\* C29: the type handed to the updater is the one the table gives for the
\* lowercased and trimmed type of the manifest, and the type handed to the
\* deployer is the same.
C29_TypeNormalized ==
    pc = "type_deployed" =>
        /\ pd.updateType = ArtifactTypeTable(ToLower(TrimSpace(pd.Type)))
        /\ pd.deployType = pd.updateType

\* the two types agree, whatever the spelling
TypesAgree == pc = "type_deployed" => pd.deployType = pd.updateType

\* Batch sync ----------------------------------------------------------------
SyncKey(k) == ParamKey(pd.params[k].Pid, pd.params[k].ID)

ErrorOccurrences(key) ==
    Cardinality({j \in 1..Len(pd.results.Errors) : pd.results.Errors[j].Key = key})

\* the list the own probe and the own operation of parameter k lead to
OwnList(k) ==
    IF pd.probes[k].err THEN "Errors"
    ELSE IF k \notin DOMAIN pd.answers THEN "Unchanged"
    ELSE IF ~pd.answers[k].statusLine THEN "Errors"
    ELSE IF pd.answers[k].StatusCode = 201 THEN "Created"
    ELSE IF pd.answers[k].StatusCode >= 200 /\ pd.answers[k].StatusCode < 300 THEN "Updated"
    ELSE "Errors"

\* C30: after BatchSync has returned a result, every parameter is in exactly
\* one list, once, and the list is the one its own probe and the response to
\* its own operation lead to: Created for 201, Updated for another 2xx,
\* Errors for a failure, Unchanged without an operation.
C30_ResponsesAttributed ==
    (pc = "sync_done" /\ ~pd.err) =>
        \A k \in 1..Len(pd.params) :
            /\ Occurrences(pd.results.Created, SyncKey(k))
                 = (IF OwnList(k) = "Created" THEN 1 ELSE 0)
            /\ Occurrences(pd.results.Updated, SyncKey(k))
                 = (IF OwnList(k) = "Updated" THEN 1 ELSE 0)
            /\ Occurrences(pd.results.Unchanged, SyncKey(k))
                 = (IF OwnList(k) = "Unchanged" THEN 1 ELSE 0)
            /\ ErrorOccurrences(SyncKey(k)) = (IF OwnList(k) = "Errors" THEN 1 ELSE 0)

\* Full-sync deletion ----------------------------------------------------------
PDPositions ==
    {"pd_start", "pd_begin", "pd_string", "pd_binary", "pd_binary_begin",
     "pd_delete_load", "pd_delete_list_string", "pd_delete_list_binary",
     "pd_delete_string", "pd_delete_binary", "pd_summary", "returned"}

\* the IDs the local files of every partner hold, as pairs <<pid, id>>
LocalFileIDs(kind) ==
    LocalIDs(pd.local, kind, {pd.local[k].Pid : k \in 1..Len(pd.local)})

\* C31: a delete call is issued only for a parameter whose ID the local
\* files of its partner do not hold, also when a local read of the deletion
\* step has failed.
C31_NoLocalParameterDeleted ==
    \A c \in pd.calls :
        c.op = "delete" => <<c.Pid, c.ID>> \notin LocalFileIDs(c.kind)

\* Task collection -------------------------------------------------------------
\* the tasks built from the artifact at position o
TasksFrom(o) == {n \in DOMAIN obs.taskOrigin : obs.taskOrigin[n] = o}

\* the artifacts of the packages the task collection ran for that match the
\* filter, have deploy=true and did not fail in phase 1 themselves
DueArtifacts ==
    {o \in UNION {{<<q[1], q[2], a>> :
                     a \in 1..Len(work[q[1]].config.Packages[q[2]].Artifacts)} :
                  q \in obs.collected} :
        /\ shouldInclude(ArtifactAt(o).Id, opts.artifactFilter)
        /\ ArtifactAt(o).Deploy
        /\ o \notin obs.updateFailed}

\* C32: without merging, every artifact of a processed package with
\* deploy=true that matches the filter, has deploy=true and did not fail in
\* phase 1 itself has exactly one task, with its effective artifact and
\* package IDs, whatever happened to other artifacts with the same raw ID.
C32_OneTaskPerDueArtifact ==
    (~opts.mergeConfigs /\ DOMAIN obs.taskOrigin = DOMAIN deploymentTasks) =>
        \A o \in DueArtifacts :
            /\ Cardinality(TasksFrom(o)) = 1
            /\ \A n \in TasksFrom(o) :
                 /\ deploymentTasks[n].ArtifactID =
                       FinalArtifactID(work[o[1]].config.DeploymentPrefix, ArtifactAt(o))
                 /\ deploymentTasks[n].PackageID =
                       FinalPackageID(work[o[1]].config, work[o[1]].applyPrefix,
                                      work[o[1]].config.Packages[o[2]])

\* the same, when no other artifact with the same raw ID has failed
C32_HoldsWithoutSharedIDs ==
    (\A o \in obs.updateFailed : \A d \in DueArtifacts :
        ArtifactAt(d).Id # ArtifactAt(o).Id)
        => C32_OneTaskPerDueArtifact

\* Dry-run ---------------------------------------------------------------------
\* the local parameters of a kind the loops go through, in their order
RECURSIVE LoopParameters(_, _, _)
LoopParameters(kind, pids, k) ==
    IF k > Len(pids) THEN <<>>
    ELSE ReadParameters(pd.local, kind, pids[k]) \o LoopParameters(kind, pids, k + 1)

\* the loop over the parameters with dryRun=false, every probe answered and
\* every create and update successful
RECURSIVE RealRun(_, _, _, _)
RealRun(kind, params, k, st) ==
    IF k > Len(params) THEN st
    ELSE RealRun(kind, params, k + 1,
                 DeployOne(kind, params[k], st, opts.replace, FALSE, FALSE, FALSE))

\* the results of that run on the tenant as it was before the run
RealResults(kind) ==
    LET st == RealRun(kind, LoopParameters(kind, pd.localPIDs, 1), 1,
                      [pd EXCEPT !.remote = pd.remote0,
                                 !.stringResults = NewBatchResult,
                                 !.binaryResults = NewBatchResult,
                                 !.calls = {}, !.trace = <<>>])
    IN IF kind = "string" THEN st.stringResults ELSE st.binaryResults

DryRunOver ==
    /\ pc = "returned" /\ result = "nil" /\ opts.dryRun
    /\ pd.stringResults.Errors = <<>> /\ pd.binaryResults.Errors = <<>>

SameReport(a, b) ==
    a.Created = b.Created /\ a.Updated = b.Updated /\ a.Unchanged = b.Unchanged

Delimiters(lines, boundary) ==
    {k \in 1..Len(lines) : lines[k] \in {"--" \o boundary, "--" \o boundary \o "--"}}

\* a multipart is well closed: it starts with the delimiter, and the trailer
\* is its last delimiter line and occurs once
Closed(lines, boundary) ==
    /\ Len(lines) > 0 /\ lines[1] = "--" \o boundary
    /\ \E k \in 1..Len(lines) :
          /\ lines[k] = "--" \o boundary \o "--"
          /\ \A j \in Delimiters(lines, boundary) : j <= k
          /\ \A j \in 1..Len(lines) : lines[j] = lines[k] => j = k

\* the elements of a set of positions in increasing order
SortedPositions(S) ==
    [n \in 1..Cardinality(S) |->
        CHOOSE k \in S : Cardinality({j \in S : j < k}) = n - 1]

\* the parts of a multipart: the lines between a delimiter and the next one
PartsOf(lines, boundary) ==
    LET ds == Delimiters(lines, boundary)
        starts == {k \in ds : lines[k] = "--" \o boundary}
        order == SortedPositions(starts)
    IN [n \in 1..Len(order) |->
          LET next == CHOOSE j \in ds : j > order[n] /\ \A i \in ds : i > order[n] => j <= i
          IN SubSeq(lines, order[n] + 1, next - 1)]

\* a part holds the request of an operation
IsRequestOf(part, op) ==
    /\ Len(part) > 0 /\ part[1] = "Content-Type: application/http"
    /\ \E k \in 1..Len(part) : part[k] = op.Method \o " " \o op.Path \o " HTTP/1.1"

\* C34: directly under the outer boundary the body holds one application/http
\* part per query operation, in order, then - iff there is a changeset
\* operation - one multipart/mixed part with one application/http part per
\* changeset operation, in order, and no other part; both multiparts are
\* closed by their trailer.
C34_BodyStructure ==
    (pc = "body_built" /\ pd.built) =>
        LET q == queryOps(pd.operations)
            c == changesetOps(pd.operations)
            parts == PartsOf(pd.body, "batch_1")
        IN /\ Closed(pd.body, "batch_1")
           /\ Len(parts) = Len(q) + (IF Len(c) > 0 THEN 1 ELSE 0)
           /\ \A k \in 1..Len(q) : k <= Len(parts) /\ IsRequestOf(parts[k], q[k])
           /\ Len(c) > 0 =>
                LET nested == parts[Len(parts)]
                    inner == PartsOf(nested, "changeset_2")
                IN /\ nested[1] = "Content-Type: multipart/mixed; boundary=changeset_2"
                   /\ Closed(Tail(Tail(nested)), "changeset_2")
                   /\ Len(inner) = Len(c)
                   /\ \A k \in 1..Len(c) : IsRequestOf(inner[k], c[k])

C34_HoldsWithChangeset ==
    Len(changesetOps(pd.operations)) > 0 => C34_BodyStructure

\* Merging leaves the input ----------------------------------------------------
\* package IDs, display names and artifact IDs of a list of manifests
MergeIdentity(configs) ==
    [i \in 1..Len(configs) |->
       [p \in 1..Len(configs[i].Config.Packages) |->
          LET pkg == configs[i].Config.Packages[p]
          IN [ID |-> pkg.ID, DisplayName |-> pkg.DisplayName,
              Artifacts |-> [a \in 1..Len(pkg.Artifacts) |-> pkg.Artifacts[a].Id]]]]

\* C35: after MergeConfigs, on success and on a duplicate-ID error, package
\* IDs, display names and artifact IDs of every input manifest are what they
\* were before the call, and merging the same manifests again returns the
\* result of the first call.
C35_MergeLeavesInput ==
    pc = "merged" =>
        /\ MergeIdentity(configFiles) = MergeIdentity(obs.mergeInput)
        /\ LET again == MergeConfigs(configFiles)
           IN again.ok = merged.ok /\ again.config = merged.config /\ again.err = merged.err

\* without a deployment prefix nothing is rewritten
C35_HoldsWithoutPrefix ==
    (\A i \in 1..Len(obs.mergeInput) : obs.mergeInput[i].Config.DeploymentPrefix = "")
        => C35_MergeLeavesInput

\* Manifest headers read back --------------------------------------------------
HeaderNames == {"Bundle-Name", "Bundle-SymbolicName"}

\* the lines that start the header with the given name
HeaderLinesOf(lines, name) ==
    {k \in 1..Len(lines) : HasPrefix(ToLower(TrimSpace(lines[k])), ToLower(name) \o ":")}

\* every line of the file ends the same way
UniformEndings(content) ==
    Contains(content, "\r\n") =>
        \A k \in 1..Len(content) :
            SubSeq(content, k, k) = "\n" => k > 1 /\ SubSeq(content, k - 1, k - 1) = "\r"

\* the two headers are written as "Bundle-Name:" and "Bundle-SymbolicName:",
\* each at most once, and every line ends the same way
PlainManifest ==
    /\ \A name \in HeaderNames :
          /\ Cardinality(HeaderLinesOf(pd.lines, name)) <= 1
          /\ \A k \in HeaderLinesOf(pd.lines, name) : HasPrefix(pd.lines[k], name \o ":")
    /\ UniformEndings(pd.content)

\* C36: the file written for a manifest holding each of the two headers once
\* or not at all, continued or not, reads back with Bundle-Name = bundleName
\* and Bundle-SymbolicName = symbolicName, and with every other header as it
\* is read from the input.
C36_HeadersReadBack ==
    (pc = "manifest_done" /\ pd.written /\ PlainManifest) =>
        LET before == GetManifestHeaders(pd.content)
            after == GetManifestHeaders(pd.output)
        IN /\ "Bundle-Name" \in DOMAIN after /\ after["Bundle-Name"] = "N"
           /\ "Bundle-SymbolicName" \in DOMAIN after /\ after["Bundle-SymbolicName"] = "S"
           /\ DOMAIN after \ HeaderNames = DOMAIN before \ HeaderNames
           /\ \A key \in DOMAIN before \ HeaderNames : after[key] = before[key]

\* no continuation line follows one of the two headers
NoContinuedHeader ==
    \A name \in HeaderNames : \A k \in HeaderLinesOf(pd.lines, name) :
        k < Len(pd.lines) => ~IsContinuation(pd.lines[k + 1])

C36_HoldsWithoutContinuation == NoContinuedHeader => C36_HeadersReadBack

\* Determinism of the parameters merge -----------------------------------------
\* the contents a call with the file and the overrides of this run can write,
\* one for each order the overrides map can be ranged over
PossibleOutputs ==
    {MergeParametersFile(pd.exists, pd.content, pd.overrides, order) :
        order \in Orders(DOMAIN pd.overrides)}

\* the override keys the file does not hold
NewKeys ==
    LET parsed == IF pd.exists
                  THEN ParseParameterLines(
                         SplitContent(pd.content, DetectLineEnding(pd.content)), 1,
                         EmptyFunction, <<>>)
                  ELSE [params |-> EmptyFunction, paramKeys |-> <<>>]
    IN DOMAIN pd.overrides \ DOMAIN parsed.params

\* C37: a second call with the same file content and the same overrides
\* writes what the first call wrote, whatever the number of override keys the
\* file does not hold.
C37_MergeDeterministic ==
    (pc = "params_done" /\ pd.written) => PossibleOutputs = {pd.output}

C37_HoldsWithOneNewKey == Cardinality(NewKeys) <= 1 => C37_MergeDeterministic

\* Statistics of Phase 2 -------------------------------------------------------
\* C38: when deployAllArtifactsParallel has returned, the two deploy counters
\* add up to the number of tasks, DeployFailures is ArtifactsDeployedFailed,
\* each of the two ID sets has as many IDs as its counter says, and no
\* artifact ID is in both sets.
C38_DeployStatsConsistent ==
    pc = "summary" =>
        /\ stats.ArtifactsDeployedSuccess + stats.ArtifactsDeployedFailed
              = Len(deploymentTasks)
        /\ stats.DeployFailures = stats.ArtifactsDeployedFailed
        /\ Cardinality(stats.SuccessfulArtifactDeploys) = stats.ArtifactsDeployedSuccess
        /\ Cardinality(stats.FailedArtifactDeploys) = stats.ArtifactsDeployedFailed
        /\ stats.SuccessfulArtifactDeploys \cap stats.FailedArtifactDeploys = {}

\* the tasks have pairwise different artifact IDs
DistinctTaskIDs ==
    \A a, b \in 1..Len(deploymentTasks) :
        deploymentTasks[a].ArtifactID = deploymentTasks[b].ArtifactID => a = b

C38_HoldsWithDistinctIDs == DistinctTaskIDs => C38_DeployStatsConsistent

\* Convergence of a full sync --------------------------------------------------
SeqToSet(q) == {q[k] : k \in 1..Len(q)}

\* the tenant's records of a kind for a partner
RemoteRecords(remote, kind, pid) ==
    {param \in SeqToSet(RemoteOf(remote, kind)) : param.Pid = pid}

LocalRecords(kind, pid) == SeqToSet(ReadParameters(pd.local, kind, pid))

\* every partner ID the tenant or the local files hold
AllPIDs ==
    {param.Pid : param \in SeqToSet(pd.remote0.str) \cup SeqToSet(pd.remote0.bin)}
        \cup {pd.local[k].Pid : k \in 1..Len(pd.local)}

\* a replacing full sync has returned and has recorded no error
FullSyncWithoutError ==
    /\ pc = "returned" /\ result = "nil"
    /\ opts.replace /\ opts.fullSync /\ ~opts.dryRun
    /\ pd.stringResults.Errors = <<>> /\ pd.binaryResults.Errors = <<>>
    /\ ~pd.deletionError /\ pd.deletionResults.Errors = <<>>

\* a run repeated on the tenant as it is now finds every parameter unchanged
\* and nothing to delete
RepeatIsIdle ==
    \A pid \in SeqToSet(pd.managedPIDs), kind \in {"string", "binary"} :
        /\ \A param \in LocalRecords(kind, pid) :
              Dispatch(kind, RemoteOf(pd.remote, kind), param, TRUE) = "unchanged"
        /\ \A param \in RemoteRecords(pd.remote, kind, pid) :
              <<pid, param.ID>> \in LocalIDs(pd.local, kind, {pid})

\* C39: after a replacing full sync that recorded no error the tenant holds,
\* for every managed partner, the local string parameters (id, value) and
\* binary parameters (id, value, content type) and no others; the records of
\* the other partners are what they were; a repeated run changes nothing.
C39_FullSyncConverges ==
    FullSyncWithoutError =>
        /\ \A pid \in SeqToSet(pd.managedPIDs), kind \in {"string", "binary"} :
              RemoteRecords(pd.remote, kind, pid) = LocalRecords(kind, pid)
        /\ \A pid \in AllPIDs \ SeqToSet(pd.managedPIDs), kind \in {"string", "binary"} :
              RemoteRecords(pd.remote, kind, pid) = RemoteRecords(pd.remote0, kind, pid)
        /\ RepeatIsIdle

\* the tenant held no binary parameter that differs from the local one in the
\* content type alone, and no local read failed
C39_HoldsWithoutTypeDifference ==
    (/\ faults = 0
     /\ \A param \in SeqToSet(pd.remote0.bin), pid \in {"A", "B"} :
           \A own \in LocalRecords("binary", pid) :
              (param.Pid = own.Pid /\ param.ID = own.ID /\ param.Value = own.Value)
                  => param.ContentType = own.ContentType)
        => C39_FullSyncConverges

====
